---- MODULE Spec2Model ----
(***************************************************************************)
(* Model of the adaptive chunking, dispatch and reassembly pipeline of     *)
(* compendium-notes: the temporal chunker (ffmpeg-chunker.ts), the         *)
(* strategy selector (audio-processor), the transcription dispatchers      *)
(* (gemini.ts, pdf-generator.ts), the timestamp normalizer and the overlap *)
(* resolver (gemini.ts), and the job coordinator (GlobalAudioProcessor).   *)
(*                                                                         *)
(* Each subsystem has its own specification over its own group of          *)
(* variables; the variables of the other subsystems are held at their      *)
(* idle value.                                                             *)
(***************************************************************************)
EXTENDS Integers, Sequences, FiniteSets, TLC

VARIABLES
    \* ---- temporal chunker (chunkFileTemporally) and its caller
    totalDuration,          \* argument: a JS number
    chunkDurationMinutes,   \* argument
    overlapSeconds,         \* argument
    extension,              \* getOutputExtension(file.type, file.name)
    cft_pc,                 \* position inside chunkFileTemporally
    isLoaded,               \* module-level flag of the FFmpeg singleton
    vfs,                    \* files present in the FFmpeg virtual filesystem
    currentTime,            \* loop variable
    chunkIndex,             \* loop variable
    chunks,                 \* ChunkInfo[] built by the loop
    cft_result,             \* value returned to the caller (None until then)
    execCount,              \* number of ffmpeg.exec invocations made
    execAtFailure,          \* execCount when an exec returned non-zero, else -1
    cft_error,              \* why chunkFileTemporally threw ("none" until it does)
    processed,              \* ProcessedAudio returned by processForGemini
    reported,               \* last fraction the chunker passed to onProgress
    monotone,               \* no fraction so far was below the one before it
    \* ---- strategy selector (processAudioForUpload) and the route to the dispatcher
    provider,               \* 'gemini' | 'groq'
    fileExt,                \* extension of file.name, lower case
    fileMime,               \* file.type
    fileSize,               \* file.size in MB
    options,                \* options of processAudioForUpload: [forceCompression]
    duration,               \* result of getMediaDuration
    sel_pc,                 \* position inside the flow
    processedAudio,         \* ProcessedAudio returned by processAudioForUpload
    route,                  \* which transcription entry point the flow called
    pieces,                 \* what was handed to the transcription endpoint
    offset,                 \* byte-splitting loop variable
    index,                  \* byte-splitting loop variable
    plan,                   \* the branch processAudioForUpload took ("none" until then)
    earlier,                \* plan and encoder output of an earlier job on the same file
    \* ---- overlap resolver (detectAndRemoveOverlap) applied to given fragments
    fragments,              \* the fragments' texts, in order
    resolved,               \* the text returned (None until then)
    ov_pc,                  \* position
    \* ---- parallel dispatch (transcribeWithGeminiChunked)
    chunkMetadata,          \* windows of the pre-existing temporal chunks
    par_pc,                 \* position inside transcribeWithGeminiChunked
    pending,                \* indices of the chunks whose request is in flight
    settled,                \* per chunk promise: the object it resolved to, or None
    completedChunks,        \* counter behind updateProgress
    completionOrder,        \* indices in the order their promises resolved
    returnedText,           \* per chunk: the text the endpoint answered (None until then)
    finalText,              \* text of the TranscriptionResult (None until then)
    \* ---- sequential dispatch (runGroqFlow, transcribeAudio, transcribeSingleFile)
    total,                  \* chunks.length
    groq_pc,                \* position inside the flow
    groq_i,                 \* loop variable i of transcribeAudio
    groqResults,            \* results[] of transcribeAudio
    requests,               \* log of the requests sent: chunk and signal.aborted at that time
    aborted,                \* signal.aborted of the job's AbortController
    lastStatus,             \* HTTP status of the last response (0 before any)
    processingState,        \* store.processingState
    transcription,          \* store.transcription
    \* ---- timestamp normalizer (adjustTimestamps) on one fragment
    fragmentTokens,         \* the fragment as the markers and plain stretches it is made of
    fragmentOffset,         \* offsetMinutes of the fragment's chunk
    adjusted,               \* text returned by adjustTimestamps (None until then)
    adj_pc,                 \* position inside the post-processing step
    \* ---- note organisation requests (callLlama, organizeNotesWithGemini)
    org_fn,                 \* the function called
    org_mode,               \* mode argument of callLlama
    org_pc,                 \* position inside the call, recursion included
    org_requests,           \* number of fetch calls made
    org_limited,            \* number of 429 responses received
    org_waited,             \* milliseconds spent in the retry delays
    org_result,             \* value returned or error thrown (None until then)
    \* ---- job coordinator (store actions, GlobalAudioProcessor effects and runs)
    store,                  \* the zustand store: the fields the job reads and writes
    project,                \* the active project in the database: status and stored audio
    mounted,                \* GlobalAudioProcessor is mounted
    restoring,              \* a restoreSession call is waiting for getActiveProject
    processingRef,          \* processingRef.current
    abortControllerRef,     \* abortControllerRef.current: 0 for null, else the run it was made for
    runs,                   \* the invocations of run(): position, signal, chunk requests in flight
    \* ---- the FFmpeg singleton shared by invocations of chunkFileTemporally
    engine,                 \* files in the virtual filesystem of the singleton: name, writer, origin of the data
    invocations,            \* the invocations of chunkFileTemporally: position, loop variable, what they touched
    eng_state,              \* store.processingState as far as starting a job goes
    eng_ref                 \* processingRef.current

chunkerVars == <<totalDuration, chunkDurationMinutes, overlapSeconds, extension,
                 cft_pc, isLoaded, vfs, currentTime, chunkIndex, chunks,
                 cft_result, execCount, execAtFailure, cft_error, processed,
                 reported, monotone>>

cftProgress == <<reported, monotone>>

cftArgs == <<totalDuration, chunkDurationMinutes, overlapSeconds, extension>>

selectorVars == <<provider, fileExt, fileMime, fileSize, options, duration, sel_pc,
                  processedAudio, route, pieces, offset, index, plan, earlier>>

selFile == <<provider, fileExt, fileMime, fileSize, options>>

overlapVars == <<fragments, resolved, ov_pc>>

parallelVars == <<chunkMetadata, par_pc, pending, settled, completedChunks,
                  completionOrder, returnedText, finalText>>

groqVars == <<total, groq_pc, groq_i, groqResults, requests, aborted, lastStatus,
              processingState, transcription>>

adjustVars == <<fragmentTokens, fragmentOffset, adjusted, adj_pc>>

organizeVars == <<org_fn, org_mode, org_pc, org_requests, org_limited, org_waited, org_result>>

jobVars == <<store, project, mounted, restoring, processingRef, abortControllerRef, runs>>

engineVars == <<engine, invocations, eng_state, eng_ref>>

vars == <<chunkerVars, selectorVars, overlapVars, parallelVars, groqVars, adjustVars, organizeVars, jobVars, engineVars>>

\* the variables each subsystem leaves alone
notChunker == <<selectorVars, overlapVars, parallelVars, groqVars, adjustVars, organizeVars, jobVars, engineVars>>
notSelector == <<chunkerVars, overlapVars, parallelVars, groqVars, adjustVars, organizeVars, jobVars, engineVars>>
notOverlap == <<chunkerVars, selectorVars, parallelVars, groqVars, adjustVars, organizeVars, jobVars, engineVars>>
notParallel == <<chunkerVars, selectorVars, overlapVars, groqVars, adjustVars, organizeVars, jobVars, engineVars>>
notGroq == <<chunkerVars, selectorVars, overlapVars, parallelVars, adjustVars, organizeVars, jobVars, engineVars>>
notAdjust == <<chunkerVars, selectorVars, overlapVars, parallelVars, groqVars, organizeVars, jobVars, engineVars>>
notOrganize == <<chunkerVars, selectorVars, overlapVars, parallelVars, groqVars, adjustVars, jobVars, engineVars>>
notJob == <<chunkerVars, selectorVars, overlapVars, parallelVars, groqVars, adjustVars, organizeVars, engineVars>>
notEngine == <<chunkerVars, selectorVars, overlapVars, parallelVars, groqVars, adjustVars, organizeVars, jobVars>>

None == [none |-> TRUE]

(***************************************************************************)
(* JS numbers that may be non-finite: k is "fin", "nan" or "inf".          *)
(* Finite values are whole seconds.                                        *)
(***************************************************************************)
Fin(n) == [k |-> "fin", v |-> n]
NaN == [k |-> "nan", v |-> 0]
Infinity == [k |-> "inf", v |-> 0]

\* Number.isFinite(x)
IsFinite(x) == x.k = "fin"

\* x <= 0 in JS: false for NaN and for +Infinity
LeqZero(x) == x.k = "fin" /\ x.v <= 0

Min(a, b) == IF a <= b THEN a ELSE b
Max(a, b) == IF a >= b THEN a ELSE b

\* Math.ceil(a / b) for a >= 0, b > 0
CeilDiv(a, b) == (a + b - 1) \div b

(***************************************************************************)
(* Bounds of the chunker inputs.                                           *)
(***************************************************************************)
DurStep == 20               \* granularity of the finite durations (seconds)
MaxDurSteps == 13           \* short durations: 0 .. MaxDurSteps * DurStep
CapMargin == 2              \* long durations: around MAX_CHUNKS chunks
MaxChunkMinutes == 2
OverlapStep == 30
MaxOverlapSteps == 1

MAX_CHUNKS == 100

ShortDurations == {DurStep * k : k \in 0..MaxDurSteps}
LongDurations == {MAX_CHUNKS * 60 + DurStep * k : k \in (0 - CapMargin)..CapMargin}
Durations == {Fin(d) : d \in ShortDurations \cup LongDurations \cup {0 - DurStep}}
                \cup {NaN, Infinity}
ChunkMinutes == 1..MaxChunkMinutes
Overlaps == {OverlapStep * k : k \in 0..MaxOverlapSteps}
Extensions == {"m4a", "opus"}

\* needsReencoding(extension)
needsReencoding(ext) == ext \in {"opus", "avi"}

\* 'input.' + getOutputExtension(file.type, file.name)
inputFileName == [base |-> "input", n |-> 0, ext |-> extension]

finalExtension == IF needsReencoding(extension) THEN "m4a" ELSE extension

\* `chunk_${chunkIndex}.${finalExtension}`
outputFileName == [base |-> "chunk", n |-> chunkIndex, ext |-> finalExtension]

chunkDurationSeconds == chunkDurationMinutes * 60

\* the window of the chunk the loop is about to cut
startSeconds == currentTime
endSeconds_NoOverlap == Min(currentTime + chunkDurationSeconds, totalDuration.v)
endSeconds == Min(currentTime + chunkDurationSeconds + overlapSeconds, totalDuration.v)

\* while (currentTime < duration && chunkIndex < MAX_CHUNKS)
LoopCondition == currentTime < totalDuration.v /\ chunkIndex < MAX_CHUNKS

WholeFile == [kind |-> "whole", part |-> 0]
PartFile(i) == [kind |-> "temporal", part |-> i]
Mp3File == [kind |-> "mp3", part |-> 0]

ChunkerIdle ==
    /\ totalDuration = Fin(0)
    /\ chunkDurationMinutes = 0
    /\ overlapSeconds = 0
    /\ extension = ""
    /\ cft_pc = "idle"
    /\ isLoaded = FALSE
    /\ vfs = {}
    /\ currentTime = 0
    /\ chunkIndex = 0
    /\ chunks = <<>>
    /\ cft_result = None
    /\ execCount = 0
    /\ execAtFailure = -1
    /\ cft_error = "none"
    /\ processed = None
    /\ reported = 0
    /\ monotone = TRUE

SelectorIdle ==
    /\ provider = ""
    /\ fileExt = ""
    /\ fileMime = ""
    /\ fileSize = 0
    /\ options = None
    /\ duration = Fin(0)
    /\ sel_pc = "idle"
    /\ processedAudio = None
    /\ route = "none"
    /\ pieces = <<>>
    /\ offset = 0
    /\ index = 0
    /\ plan = "none"
    /\ earlier = None

OverlapIdle ==
    /\ fragments = <<>>
    /\ resolved = None
    /\ ov_pc = "idle"

ParallelIdle ==
    /\ chunkMetadata = <<>>
    /\ par_pc = "idle"
    /\ pending = {}
    /\ settled = <<>>
    /\ completedChunks = 0
    /\ completionOrder = <<>>
    /\ returnedText = <<>>
    /\ finalText = None

GroqIdle ==
    /\ total = 0
    /\ groq_pc = "idle"
    /\ groq_i = 0
    /\ groqResults = <<>>
    /\ requests = <<>>
    /\ aborted = FALSE
    /\ lastStatus = 0
    /\ processingState = "idle"
    /\ transcription = <<>>

AdjustIdle ==
    /\ fragmentTokens = <<>>
    /\ fragmentOffset = 0
    /\ adjusted = None
    /\ adj_pc = "idle"

OrganizeIdle ==
    /\ org_fn = ""
    /\ org_mode = ""
    /\ org_pc = "idle"
    /\ org_requests = 0
    /\ org_limited = 0
    /\ org_waited = 0
    /\ org_result = None

JobIdle ==
    /\ store = [file |-> "null", processingState |-> "idle", processingProgress |-> 0, step |-> "upload", error |-> "null", transcription |-> "", organizedNotes |-> "", title |-> "", currentProjectId |-> "null"]
    /\ project = [status |-> "none", audio |-> FALSE, id |-> 0]
    /\ mounted = FALSE
    /\ restoring = FALSE
    /\ processingRef = FALSE
    /\ abortControllerRef = 0
    /\ runs = <<>>

EngineIdle ==
    /\ engine = {}
    /\ invocations = <<>>
    /\ eng_state = "idle"
    /\ eng_ref = FALSE

InitChunker ==
    /\ SelectorIdle /\ OverlapIdle /\ ParallelIdle /\ GroqIdle /\ AdjustIdle /\ OrganizeIdle /\ JobIdle /\ EngineIdle
    /\ totalDuration \in Durations
    /\ chunkDurationMinutes \in ChunkMinutes
    /\ overlapSeconds \in Overlaps
    /\ extension \in Extensions
    /\ cft_pc = "start"
    /\ isLoaded = FALSE
    /\ vfs = {}
    /\ currentTime = 0
    /\ chunkIndex = 0
    /\ chunks = <<>>
    /\ cft_result = None
    /\ execCount = 0
    /\ execAtFailure = -1
    /\ cft_error = "none"
    /\ processed = None
    /\ reported = 0
    /\ monotone = TRUE

\* Math.ceil(duration / chunkDurationSeconds); 1 where the loop is never reached
estimatedChunks ==
    IF IsFinite(totalDuration) /\ totalDuration.v > 0
    THEN (totalDuration.v + chunkDurationSeconds - 1) \div chunkDurationSeconds
    ELSE 1

\* Fractions are whole numbers of units; a unit is 1 / (1000 * estimatedChunks), so
\* that 0.15 + (chunkIndex / estimatedChunks) * 0.8 is exact.
Permille(n) == n * estimatedChunks

\* progress of the 'progress' events the transcoder emits while it runs, in permille
TranscoderProgress == {0, 500, 1000}

\* what a run of the transcoder forwards: nothing, or one event through the handler
\* loadFFmpeg registered, (msg, ratio) => onProgress('loading', ratio * 0.1)
ForwardedEvents == {<<>>} \cup {<<Permille(pr \div 10)>> : pr \in TranscoderProgress}

RECURSIVE NonDecreasingFrom(_, _)
NonDecreasingFrom(prev, fs) ==
    IF fs = <<>> THEN TRUE
    ELSE prev <= Head(fs) /\ NonDecreasingFrom(Head(fs), Tail(fs))

\* onProgress is called with each fraction of fs in turn
Report(fs) ==
    /\ reported' = IF fs = <<>> THEN reported ELSE fs[Len(fs)]
    /\ monotone' = (monotone /\ NonDecreasingFrom(reported, fs))

\* if (totalDuration <= 0) throw new Error('Invalid duration provided')
EnterOutcome(d) == IF LeqZero(d) THEN "thrown" ELSE "load"

CftEnter ==
    /\ cft_pc = "start"
    /\ cft_pc' = EnterOutcome(totalDuration)
    /\ cft_error' = IF EnterOutcome(totalDuration) = "thrown" THEN "invalid-duration"
                    ELSE cft_error
    /\ UNCHANGED <<notChunker, cftArgs, cftProgress, isLoaded, vfs, currentTime, chunkIndex, chunks,
                   cft_result, execCount, execAtFailure, processed>>

\* const ffmpeg = await loadFFmpeg(...): the load succeeds or rejects
CftLoad ==
    /\ cft_pc = "load"
    /\ \E ok \in BOOLEAN :
        /\ isLoaded' = (isLoaded \/ ok)
        /\ cft_pc' = IF isLoaded \/ ok THEN "write" ELSE "thrown"
        /\ cft_error' = IF isLoaded \/ ok THEN cft_error ELSE "load"
        /\ Report(IF isLoaded THEN <<>>
                  ELSE IF ok THEN <<Permille(0), Permille(100)>> ELSE <<Permille(0)>>)
    /\ UNCHANGED <<notChunker, cftArgs, vfs, currentTime, chunkIndex, chunks, cft_result,
                   execCount, execAtFailure, processed>>

\* await ffmpeg.writeFile(inputFileName, await fetchFile(file))
CftWriteInput ==
    /\ cft_pc = "write"
    /\ vfs' = vfs \cup {inputFileName}
    /\ cft_pc' = "check"
    /\ Report(<<Permille(100)>>)
    /\ UNCHANGED <<notChunker, cftArgs, cft_error, isLoaded, currentTime, chunkIndex, chunks, cft_result,
                   execCount, execAtFailure, processed>>

\* SAFETY CHECK: non-finite duration -> one whole-file chunk
CftSafetyCheck ==
    /\ cft_pc = "check"
    /\ IF ~IsFinite(totalDuration) \/ LeqZero(totalDuration)
       THEN /\ vfs' = vfs \ {inputFileName}
            /\ cft_result' = [chunks |-> <<[file |-> WholeFile, startTime |-> 0,
                                            endTime |-> 0, index |-> 0]>>,
                              totalDuration |-> 0]
            /\ cft_pc' = "done"
       ELSE /\ cft_pc' = "loop"
            /\ UNCHANGED <<vfs, cft_result>>
    /\ currentTime' = 0
    /\ chunkIndex' = 0
    /\ chunks' = <<>>
    /\ Report(<<Permille(150)>>)
    /\ UNCHANGED <<notChunker, cftArgs, cft_error, isLoaded, execCount, execAtFailure, processed>>

\* exitCode = await ffmpeg.exec([... '-ss', startSeconds, '-t', chunkDuration ...]);
\* if (exitCode !== 0) throw.  A failed run may or may not leave an output file.
ExecOutcome_IgnoresExitCode(exitCode) == "read"

ExecOutcome(exitCode) == IF exitCode # 0 THEN "thrown" ELSE "read"

CftExec ==
    /\ cft_pc = "loop"
    /\ LoopCondition
    /\ \E exitCode \in {0, 1}, wrote \in BOOLEAN :
        /\ exitCode = 0 => wrote
        /\ vfs' = IF wrote THEN vfs \cup {outputFileName} ELSE vfs
        /\ cft_pc' = ExecOutcome(exitCode)
        /\ execAtFailure' = IF exitCode # 0 THEN execCount + 1 ELSE execAtFailure
        /\ cft_error' = IF ExecOutcome(exitCode) = "thrown" THEN "exec" ELSE cft_error
    /\ execCount' = execCount + 1
    /\ \E events \in ForwardedEvents :
          Report(<<Permille(150) + 800 * chunkIndex>> \o events)
    /\ UNCHANGED <<notChunker, cftArgs, isLoaded, currentTime, chunkIndex, chunks, cft_result,
                   processed>>

\* const chunkData = await ffmpeg.readFile(outputFileName); chunks.push({...})
CftReadChunk ==
    /\ cft_pc = "read"
    /\ outputFileName \in vfs
    /\ chunks' = Append(chunks, [file |-> PartFile(chunkIndex), startTime |-> startSeconds,
                                 endTime |-> endSeconds, index |-> chunkIndex])
    /\ cft_pc' = "delete"
    /\ UNCHANGED <<notChunker, cftArgs, cftProgress, cft_error, isLoaded, vfs, currentTime, chunkIndex, cft_result,
                   execCount, execAtFailure, processed>>

\* await ffmpeg.deleteFile(outputFileName); currentTime += chunkDurationSeconds; chunkIndex++
CftDeleteChunk ==
    /\ cft_pc = "delete"
    /\ vfs' = vfs \ {outputFileName}
    /\ currentTime' = currentTime + chunkDurationSeconds
    /\ chunkIndex' = chunkIndex + 1
    /\ cft_pc' = "loop"
    /\ UNCHANGED <<notChunker, cftArgs, cftProgress, cft_error, isLoaded, chunks, cft_result, execCount, execAtFailure,
                   processed>>

\* loop exit: await ffmpeg.deleteFile(inputFileName); return { chunks, totalDuration, format }
CftFinish ==
    /\ cft_pc = "loop"
    /\ ~LoopCondition
    /\ vfs' = vfs \ {inputFileName}
    /\ cft_result' = [chunks |-> chunks, totalDuration |-> totalDuration.v]
    /\ cft_pc' = "done"
    /\ Report(<<Permille(1000)>>)
    /\ UNCHANGED <<notChunker, cftArgs, cft_error, isLoaded, currentTime, chunkIndex, chunks, execCount,
                   execAtFailure, processed>>

\* processForGemini, the try branch: the chunker returned
TemporalResult(result) ==
    [chunks |-> [i \in 1..Len(result.chunks) |-> result.chunks[i].file],
     wasCompressed |-> FALSE, wasChunked |-> TRUE, chunkingMethod |-> "temporal-ffmpeg",
     duration |-> Fin(result.totalDuration),
     chunkMetadata |-> [i \in 1..Len(result.chunks) |->
                          [startTime |-> result.chunks[i].startTime,
                           endTime |-> result.chunks[i].endTime,
                           index |-> result.chunks[i].index]]]

\* fallbackToMP3Conversion: one re-encoded MP3, no chunk metadata
fallbackToMP3Conversion(convertedDuration) ==
    [chunks |-> <<Mp3File>>, wasCompressed |-> TRUE, wasChunked |-> FALSE,
     chunkingMethod |-> "none", duration |-> convertedDuration, chunkMetadata |-> <<>>]

ProcessReturn ==
    /\ cft_pc = "done"
    /\ processed = None
    /\ processed' = TemporalResult(cft_result)
    /\ UNCHANGED <<notChunker, cftArgs, cftProgress, cft_error, cft_pc, isLoaded, vfs, currentTime, chunkIndex, chunks,
                   cft_result, execCount, execAtFailure>>

\* processForGemini, the catch branch: fall back to the MP3 conversion
ProcessCatch ==
    /\ cft_pc = "thrown"
    /\ processed = None
    /\ processed' = fallbackToMP3Conversion(totalDuration)
    /\ UNCHANGED <<notChunker, cftArgs, cftProgress, cft_error, cft_pc, isLoaded, vfs, currentTime, chunkIndex, chunks,
                   cft_result, execCount, execAtFailure>>

NextChunker ==
    \/ CftEnter
    \/ CftLoad
    \/ CftWriteInput
    \/ CftSafetyCheck
    \/ CftExec
    \/ CftReadChunk
    \/ CftDeleteChunk
    \/ CftFinish
    \/ ProcessReturn
    \/ ProcessCatch

SpecChunker == InitChunker /\ [][NextChunker]_vars

(***************************************************************************)
(* Claims about the temporal chunker.                                      *)
(***************************************************************************)
ValidArgs == IsFinite(totalDuration) /\ totalDuration.v > 0
                /\ chunkDurationMinutes > 0 /\ overlapSeconds >= 0

Returned == cft_pc = "done" /\ cft_result # None

\* the windows of a returned chunk list tile [0, D]
CoversWholeDuration(cs, D) ==
    /\ Len(cs) > 0
    /\ cs[1].startTime = 0
    /\ cs[Len(cs)].endTime = D
    /\ \A k \in 1..(Len(cs) - 1) : cs[k + 1].startTime <= cs[k].endTime

\* C1: for every finite duration D > 0, chunk length C > 0 and overlap O >= 0 the
\* windows returned by chunkFileTemporally union to exactly [0, D]: the first starts
\* at 0, the last ends at D and no window starts after the previous one ends, also
\* for durations long enough to hit the chunk-count cap.
C1_WindowsCoverDuration ==
    (ValidArgs /\ Returned) => CoversWholeDuration(cft_result.chunks, totalDuration.v)

\* C9: once a transcode invocation has returned a non-zero exit code the chunking
\* operation has failed: no further invocation is made, nothing is returned, and
\* the chunks cut before the failure never reach the caller's result.
C9_ExecFailureAborts ==
    execAtFailure # -1 =>
        /\ cft_pc = "thrown"
        /\ execCount = execAtFailure
        /\ cft_result = None
        /\ processed # None =>
              /\ processed.chunkingMethod # "temporal-ffmpeg"
              /\ \A i \in 1..Len(processed.chunks) : processed.chunks[i].kind # "temporal"

\* C9 witness: the third invocation failed after two chunks were cut, and the
\* caller has taken its fallback.
C9_Witness ==
    /\ execAtFailure = 3
    /\ Len(chunks) = 2
    /\ processed # None

InvalidDuration == ~IsFinite(totalDuration) \/ totalDuration.v <= 0

SingleWholeFileChunk(r) ==
    /\ r # None
    /\ Len(r.chunks) = 1
    /\ r.chunks[1].index = 0
    /\ r.chunks[1].file = WholeFile

\* C10: called with an invalid or non-finite duration (NaN, +Infinity, zero or
\* negative) chunkFileTemporally does not fail on account of the duration: once
\* the engine is loaded it returns exactly one chunk, index 0, holding the whole file.
C10_InvalidDurationDegrades ==
    InvalidDuration =>
        /\ cft_error # "invalid-duration"
        /\ cft_pc = "done" => SingleWholeFileChunk(cft_result)

\* C18: for a finite duration D, chunk length C and overlap O <= C, every two
\* consecutive temporal chunks other than the last pair overlap by exactly O
\* seconds: endTime of the earlier minus startTime of the later is O.
C18_ConsecutiveOverlapExact ==
    (Returned /\ ValidArgs /\ overlapSeconds <= chunkDurationSeconds) =>
        LET cs == cft_result.chunks
        IN \A k \in 1..(Len(cs) - 2) :
               cs[k].endTime - cs[k + 1].startTime = overlapSeconds

\* a list of four chunks or more was returned for a positive overlap
C18_Witness ==
    /\ Returned /\ ValidArgs
    /\ overlapSeconds > 0 /\ overlapSeconds <= chunkDurationSeconds
    /\ Len(cft_result.chunks) >= 4
    /\ cft_result.chunks[2].endTime - cft_result.chunks[3].startTime = overlapSeconds

\* chunkFileTemporally has finished: it returned a result or threw
Finished == cft_pc \in {"done", "thrown"}

\* C30: when chunkFileTemporally finishes, whether it returns a result or throws,
\* every file it wrote to the virtual filesystem (the input file and every chunk
\* output file) has been deleted.
C30_VirtualFilesDeleted ==
    Finished => vfs = {}

\* C21: within the chunking stage of the temporal chunker the fractions passed to
\* the progress callback, those forwarded from the transcoder's own progress events
\* included, are non-decreasing and stay in [0, 1].
C21_ProgressMonotone ==
    /\ monotone
    /\ 0 <= reported /\ reported <= Permille(1000)

(***************************************************************************)
(* Strategy selector: processAudioForUpload, and the route by which the    *)
(* flows of GlobalAudioProcessor hand its result to the transcription      *)
(* entry points.  Sizes are in MB, durations in seconds.                   *)
(***************************************************************************)
GROQ_SAMPLE_RATE == 16000
GROQ_BITRATE == 64
GEMINI_SAMPLE_RATE == 44100
GEMINI_BITRATE == 128
GROQ_MAX_SIZE == 25
GROQ_CHUNK_SIZE == 20
GEMINI_SMALL_FILE == 20
CHUNKING_THRESHOLD_MINUTES == 20
DURATION_THRESHOLD_CHUNKING == 20
CHUNK_SIZE_MINUTES == 20
CHUNK_OVERLAP_SECONDS == 30

\* bounds of the selector inputs
SizeStep == 5
MaxSizeSteps == 6
SelDurStep == 600
MaxSelDurSteps == 4
MaxPieces == 6              \* cap on the pieces a splitting loop may push
LectureSeconds == 5400      \* a 90-minute recording, beside the stepped durations

Providers == {"gemini", "groq"}
FileExts == {"m4a", "mp3", "wav", "webm", "mov"}
FileMimes == {"audio/mp4", "audio/mpeg", "video/quicktime", ""}
Sizes == {SizeStep * k : k \in 1..MaxSizeSteps}
SelDurations == {Fin(SelDurStep * k) : k \in 0..MaxSelDurSteps}
                   \cup {Fin(LectureSeconds), NaN, Infinity}

\* needsTemporalChunking(fileName, mimeType)
containerFormats == {"m4a", "mp4", "mov", "webm", "mkv", "ogg", "opus", "flac"}
containerMimes == {"audio/mp4", "audio/x-m4a", "audio/m4a", "video/mp4", "video/quicktime",
                   "audio/webm", "video/webm", "audio/ogg", "audio/opus", "audio/flac",
                   "audio/x-flac"}

needsTemporalChunking(ext, mime) == ext \in containerFormats \/ mime \in containerMimes

\* file.type.startsWith('video/')
isVideo(mime) == mime \in {"video/mp4", "video/quicktime", "video/webm"}

\* x || 0 for a JS number: 0 and NaN are falsy
OrZero(x) == IF x.k = "nan" THEN Fin(0) ELSE x

\* x / 60 >= t for a JS number x
MinutesAtLeast(x, t) == x.k = "inf" \/ (x.k = "fin" /\ x.v >= t * 60)

\* the files that travel through the pipeline; size 0 stands for a size the model
\* does not track
OriginalFile == [kind |-> "original", size |-> fileSize, part |-> 0,
                 container |-> needsTemporalChunking(fileExt, fileMime)]
\* the MP3 compressAudio(file, onProgress, targetSampleRate, targetBitrate, label) encodes
CompressedFile(sz, targetSampleRate, targetBitrate) ==
    [kind |-> "mp3", size |-> sz, part |-> 0, container |-> FALSE,
     sampleRate |-> targetSampleRate, bitrate |-> targetBitrate]
TemporalChunkFile(i) == [kind |-> "temporal", size |-> 0, part |-> i, container |-> TRUE]

\* the loop of chunkFileTemporally as a function of its arguments (seconds)
RECURSIVE ChunkWindows(_, _, _, _, _)
ChunkWindows(D, C, O, cur, idx) ==
    IF cur < D /\ idx < MAX_CHUNKS
    THEN <<[startTime |-> cur, endTime |-> Min(cur + C + O, D), index |-> idx]>>
            \o ChunkWindows(D, C, O, cur + C, idx + 1)
    ELSE <<>>

DirectPass(file, d) ==
    [chunks |-> <<file>>, wasCompressed |-> FALSE, wasChunked |-> FALSE,
     chunkingMethod |-> "none", duration |-> d, chunkMetadata |-> <<>>, hasMetadata |-> FALSE]

Compressed(file, d) ==
    [chunks |-> <<file>>, wasCompressed |-> TRUE, wasChunked |-> FALSE,
     chunkingMethod |-> "none", duration |-> d, chunkMetadata |-> <<>>, hasMetadata |-> FALSE]

\* what processForGemini returns after a successful chunkFileTemporally(file, d, 20, 30)
TemporalChunked(d) ==
    LET meta == IF IsFinite(d)
                THEN ChunkWindows(d.v, CHUNKING_THRESHOLD_MINUTES * 60, 30, 0, 0)
                ELSE <<[startTime |-> 0, endTime |-> 0, index |-> 0]>>
    IN [chunks |-> [i \in 1..Len(meta) |->
                       IF IsFinite(d) THEN TemporalChunkFile(i - 1) ELSE OriginalFile],
        wasCompressed |-> FALSE, wasChunked |-> TRUE, chunkingMethod |-> "temporal-ffmpeg",
        duration |-> IF IsFinite(d) THEN d ELSE Fin(0),
        chunkMetadata |-> meta, hasMetadata |-> TRUE]

chunkFileRanges_Whole(size, chunkSize, off) == <<[from |-> 0, to |-> size]>>

\* chunkFile(file, chunkSize): byte ranges [offset, min(offset + chunkSize, size))
RECURSIVE chunkFileRanges(_, _, _)
chunkFileRanges(size, chunkSize, off) ==
    IF off < size
    THEN <<[from |-> off, to |-> Min(off + chunkSize, size)]>>
            \o chunkFileRanges(size, chunkSize, Min(off + chunkSize, size))
    ELSE <<>>

BinaryChunked(file, d) ==
    LET ranges == chunkFileRanges(file.size, GROQ_CHUNK_SIZE, 0)
    IN [chunks |-> [i \in 1..Len(ranges) |->
                       [kind |-> "mp3part", size |-> ranges[i].to - ranges[i].from,
                        part |-> i - 1, container |-> FALSE,
                        sampleRate |-> file.sampleRate, bitrate |-> file.bitrate]],
        wasCompressed |-> TRUE, wasChunked |-> TRUE, chunkingMethod |-> "binary",
        duration |-> d, chunkMetadata |-> <<>>, hasMetadata |-> FALSE]

InitSelector ==
    /\ ChunkerIdle /\ OverlapIdle /\ ParallelIdle /\ GroqIdle /\ AdjustIdle /\ OrganizeIdle /\ JobIdle /\ EngineIdle
    /\ provider \in Providers
    /\ fileExt \in FileExts
    /\ fileMime \in FileMimes
    /\ fileSize \in Sizes
    /\ options \in IF provider = "groq"
                   THEN {[forceCompression |-> b] : b \in BOOLEAN}
                   ELSE {[forceCompression |-> FALSE]}
    /\ duration = Fin(0)
    /\ sel_pc = "probe"
    /\ processedAudio = None
    /\ route = "none"
    /\ pieces = <<>>
    /\ offset = 0
    /\ index = 0
    /\ plan = "none"
    /\ earlier = None

\* getMediaDuration: media.duration as reported (finite, Infinity or NaN; a non-finite
\* value of a file under 10 MB is replaced by the decoded duration when the decode
\* succeeds), or 0 from onerror
SelProbe ==
    /\ sel_pc = "probe"
    /\ duration' \in SelDurations
    /\ sel_pc' = "process"
    /\ UNCHANGED <<notSelector, selFile, processedAudio, route, pieces, offset, index, plan, earlier>>

FiniteSelDurations == {d \in SelDurations : IsFinite(d)}

\* the encoder is deterministic: a later job on the same file gets the output size
\* the earlier job got
EncodedAgain(sz) ==
    IF earlier = None THEN TRUE
    ELSE IF earlier.encoded = 0 THEN TRUE ELSE sz = earlier.encoded

\* decodeAudioData is deterministic too: it rejects only a file that no earlier job
\* has encoded
MayReject == IF earlier = None THEN TRUE ELSE earlier.encoded = 0

\* processForGemini: const isLikelyShort = isSmallFile || isShortDuration
isLikelyShort ==
    \/ fileSize < GEMINI_SMALL_FILE
    \/ (IsFinite(duration) /\ duration.v < CHUNKING_THRESHOLD_MINUTES * 60)

\* processForGemini, CASO 1: direct pass
SelGeminiDirect ==
    /\ sel_pc = "process" /\ provider = "gemini"
    /\ ~isVideo(fileMime)
    /\ isLikelyShort
    /\ processedAudio' = DirectPass(OriginalFile, duration)
    /\ sel_pc' = "route"
    /\ plan' = "direct"
    /\ UNCHANGED <<notSelector, selFile, duration, route, pieces, offset, index, earlier>>

\* processForGemini, CASO 2: long container format, FFmpeg available and successful
SelGeminiTemporal ==
    /\ sel_pc = "process" /\ provider = "gemini"
    /\ ~isVideo(fileMime)
    /\ ~isLikelyShort
    /\ needsTemporalChunking(fileExt, fileMime)
    /\ processedAudio' = TemporalChunked(duration)
    /\ sel_pc' = "route"
    /\ plan' = "temporal-chunk"
    /\ UNCHANGED <<notSelector, selFile, duration, route, pieces, offset, index, earlier>>

\* processForGemini, CASO 2: FFmpeg unsupported or chunkFileTemporally threw ->
\* fallbackToMP3Conversion (compressAudio may itself reject)
SelGeminiFallback ==
    /\ sel_pc = "process" /\ provider = "gemini"
    /\ ~isVideo(fileMime)
    /\ ~isLikelyShort
    /\ needsTemporalChunking(fileExt, fileMime)
    /\ \/ \E sz \in Sizes, cd \in FiniteSelDurations :
            /\ EncodedAgain(sz)
            /\ processedAudio' = Compressed(CompressedFile(sz, GEMINI_SAMPLE_RATE,
                                                            GEMINI_BITRATE), cd)
            /\ sel_pc' = "route"
       \/ /\ MayReject
          /\ sel_pc' = "error"
          /\ UNCHANGED processedAudio
    /\ plan' = "temporal-chunk-fallback-to-compress"
    /\ UNCHANGED <<notSelector, selFile, duration, route, pieces, offset, index, earlier>>

\* processForGemini, CASO 3: long MP3/WAV, direct pass
SelGeminiLongSimple ==
    /\ sel_pc = "process" /\ provider = "gemini"
    /\ ~isVideo(fileMime)
    /\ ~isLikelyShort
    /\ ~needsTemporalChunking(fileExt, fileMime)
    /\ processedAudio' = DirectPass(OriginalFile, duration)
    /\ sel_pc' = "route"
    /\ plan' = "direct"
    /\ UNCHANGED <<notSelector, selFile, duration, route, pieces, offset, index, earlier>>

\* processForGemini, VIDEO: extract audio with compressAudio
SelGeminiVideo ==
    /\ sel_pc = "process" /\ provider = "gemini"
    /\ isVideo(fileMime)
    /\ \/ \E sz \in Sizes, cd \in FiniteSelDurations :
            /\ EncodedAgain(sz)
            /\ processedAudio' = Compressed(CompressedFile(sz, GEMINI_SAMPLE_RATE,
                                                            GEMINI_BITRATE), cd)
            /\ sel_pc' = "route"
       \/ /\ MayReject
          /\ sel_pc' = "error"
          /\ UNCHANGED processedAudio
    /\ plan' = "compress"
    /\ UNCHANGED <<notSelector, selFile, duration, route, pieces, offset, index, earlier>>

needsCompression_SizeOnly(forceCompression) == fileSize > GROQ_MAX_SIZE

\* processForGroq: needsCompression
needsCompression(forceCompression) ==
    fileSize > GROQ_MAX_SIZE \/ isVideo(fileMime) \/ forceCompression

\* processForGroq, Paso 1: direct pass
SelGroqDirect ==
    /\ sel_pc = "process" /\ provider = "groq"
    /\ ~needsCompression(options.forceCompression)
    /\ processedAudio' = DirectPass(OriginalFile, duration)
    /\ sel_pc' = "route"
    /\ plan' = "direct"
    /\ UNCHANGED <<notSelector, selFile, duration, route, pieces, offset, index, earlier>>

\* processForGroq, Pasos 2-4: compress, then chunkFile when the MP3 exceeds 20 MB
SelGroqCompress ==
    /\ sel_pc = "process" /\ provider = "groq"
    /\ needsCompression(options.forceCompression)
    /\ \/ \E sz \in Sizes, cd \in FiniteSelDurations :
            /\ EncodedAgain(sz)
            /\ processedAudio' =
                  IF sz <= GROQ_CHUNK_SIZE
                  THEN Compressed(CompressedFile(sz, GROQ_SAMPLE_RATE, GROQ_BITRATE), cd)
                  ELSE BinaryChunked(CompressedFile(sz, GROQ_SAMPLE_RATE, GROQ_BITRATE), cd)
            /\ plan' = IF sz <= GROQ_CHUNK_SIZE THEN "compress" ELSE "compress+binary-chunk"
            /\ sel_pc' = "route"
       \/ /\ MayReject
          /\ sel_pc' = "error"
          /\ plan' = "compress"
          /\ UNCHANGED processedAudio
    /\ UNCHANGED <<notSelector, selFile, duration, route, pieces, offset, index, earlier>>

Whole(file) == [src |-> file, from |-> 0, to |-> 0, sliced |-> FALSE]

\* runGroqFlow: transcribeAudio(processed.chunks, ...) sends each chunk as a file
SelRouteGroq ==
    /\ sel_pc = "route" /\ provider = "groq"
    /\ route' = "transcribeAudio"
    /\ pieces' = [i \in 1..Len(processedAudio.chunks) |-> Whole(processedAudio.chunks[i])]
    /\ sel_pc' = "done"
    /\ UNCHANGED <<notSelector, selFile, duration, processedAudio, offset, index, plan, earlier>>

\* runGeminiFlow: const durationMinutes = (processed.duration || 0) / 60;
\* if (durationMinutes >= DURATION_THRESHOLD_CHUNKING) chunked, else standard
UsesChunkedStrategy(p) == MinutesAtLeast(OrZero(p.duration), DURATION_THRESHOLD_CHUNKING)

\* transcribeWithGeminiChunked: isPreChunked && chunkMetadata
IsPreChunked(p) == p.wasChunked /\ p.hasMetadata

\* runGeminiFlow, standard strategy: transcribeWithGemini(processed.chunks[0], ...)
SelRouteStandard ==
    /\ sel_pc = "route" /\ provider = "gemini"
    /\ ~UsesChunkedStrategy(processedAudio)
    /\ route' = "transcribeWithGemini"
    /\ pieces' = <<Whole(processedAudio.chunks[1])>>
    /\ sel_pc' = "done"
    /\ UNCHANGED <<notSelector, selFile, duration, processedAudio, offset, index, plan, earlier>>

\* transcribeWithGeminiChunked, CASO A: the chunks arrive already cut
SelRoutePreChunked ==
    /\ sel_pc = "route" /\ provider = "gemini"
    /\ UsesChunkedStrategy(processedAudio)
    /\ IsPreChunked(processedAudio)
    /\ route' = "transcribeWithGeminiChunked"
    /\ pieces' = [i \in 1..Len(processedAudio.chunks) |-> Whole(processedAudio.chunks[i])]
    /\ sel_pc' = "done"
    /\ UNCHANGED <<notSelector, selFile, duration, processedAudio, offset, index, plan, earlier>>

\* transcribeWithGeminiChunked, CASO B: one file, split at byte offsets
SelRouteSingleFile ==
    /\ sel_pc = "route" /\ provider = "gemini"
    /\ UsesChunkedStrategy(processedAudio)
    /\ ~IsPreChunked(processedAudio)
    /\ route' = "transcribeWithGeminiChunked"
    /\ pieces' = <<>>
    /\ offset' = 0
    /\ index' = 0
    /\ sel_pc' = "split"
    /\ UNCHANGED <<notSelector, selFile, duration, processedAudio, plan, earlier>>

(***************************************************************************)
(* The byte-splitting loop of transcribeWithGeminiChunked.                 *)
(* bytesPerSecond = size / durationSeconds.  For a finite duration the     *)
(* byte offsets are measured in units of bytesPerSecond bytes, so that the *)
(* file is durationSeconds units long, chunkSizeBytes is 20 * 60 units and *)
(* overlapBytes is 30 units.  For an infinite duration bytesPerSecond,     *)
(* chunkSizeBytes and overlapBytes are all 0 and offsets are in MB.        *)
(***************************************************************************)
singleFile == processedAudio.chunks[1]
durationSeconds == processedAudio.duration
singleFileSize == IF IsFinite(durationSeconds) THEN durationSeconds.v ELSE singleFile.size
chunkSizeBytes == IF IsFinite(durationSeconds) THEN CHUNK_SIZE_MINUTES * 60 ELSE 0
overlapBytes == IF IsFinite(durationSeconds) THEN CHUNK_OVERLAP_SECONDS ELSE 0

\* let end = Math.min(offset + chunkSizeBytes, size); if (end < size) end = Math.min(end + overlapBytes, size)
SliceEnd(off) ==
    LET end == Min(off + chunkSizeBytes, singleFileSize)
    IN IF end < singleFileSize THEN Min(end + overlapBytes, singleFileSize) ELSE end

\* start: offset / bytesPerSecond, end: end / bytesPerSecond (0 / 0 is NaN)
SecondsAt(off) ==
    IF IsFinite(durationSeconds) THEN Fin(off) ELSE IF off = 0 THEN NaN ELSE Infinity

\* while (offset < singleFile.size) { chunks.push(slice(offset, end)); offset += chunkSizeBytes; index++ }
SelSplitStep ==
    /\ sel_pc = "split"
    /\ offset < singleFileSize
    /\ index < MaxPieces
    /\ pieces' = Append(pieces, [src |-> singleFile, from |-> offset, to |-> SliceEnd(offset),
                                 sliced |-> TRUE,
                                 start |-> SecondsAt(offset),
                                 end |-> SecondsAt(SliceEnd(offset))])
    /\ offset' = offset + chunkSizeBytes
    /\ index' = index + 1
    /\ UNCHANGED <<notSelector, selFile, duration, sel_pc, processedAudio, route, plan, earlier>>

SelSplitDone ==
    /\ sel_pc = "split"
    /\ ~(offset < singleFileSize)
    /\ sel_pc' = "done"
    /\ UNCHANGED <<notSelector, selFile, duration, processedAudio, route, pieces, offset, index, plan, earlier>>

RECURSIVE SumSizes(_)
SumSizes(files) == IF files = <<>> THEN 0 ELSE Head(files).size + SumSizes(Tail(files))

\* ProcessedAudio.compressedSize when the job encoded the file, else 0
EncodedSize(p) == IF p.wasCompressed THEN SumSizes(p.chunks) ELSE 0

\* a finished job is followed by another job on the same file: the same provider, file
\* and probed duration go through processAudioForUpload again
SelAgain ==
    /\ sel_pc = "done"
    /\ earlier = None
    /\ earlier' = [plan |-> plan, encoded |-> EncodedSize(processedAudio)]
    /\ sel_pc' = "process"
    /\ plan' = "none"
    /\ processedAudio' = None
    /\ route' = "none"
    /\ pieces' = <<>>
    /\ offset' = 0
    /\ index' = 0
    /\ UNCHANGED <<notSelector, selFile, duration>>

NextSelector ==
    \/ SelAgain
    \/ SelProbe
    \/ SelGeminiDirect
    \/ SelGeminiTemporal
    \/ SelGeminiFallback
    \/ SelGeminiLongSimple
    \/ SelGeminiVideo
    \/ SelGroqDirect
    \/ SelGroqCompress
    \/ SelRouteGroq
    \/ SelRouteStandard
    \/ SelRoutePreChunked
    \/ SelRouteSingleFile
    \/ SelSplitStep
    \/ SelSplitDone

SpecSelector == InitSelector /\ [][NextSelector]_vars

(***************************************************************************)
(* Claims about the selector and the route to the dispatcher.              *)
(***************************************************************************)
\* a piece that is a proper byte range of its source file
IsByteRange(pc) == pc.sliced /\ (pc.from > 0 \/ pc.to < singleFileSize)

\* C2: no file that needsTemporalChunking classifies as a container format is ever
\* split at byte offsets: every piece handed to a transcription entry point is a
\* whole file, a temporal chunk, or a byte range of a re-encoded MP3.
C2_ContainerNeverByteSplit ==
    \A i \in 1..Len(pieces) : IsByteRange(pieces[i]) => ~pieces[i].src.container

\* the file is a non-video container file
IsContainerAudio == ~isVideo(fileMime) /\ needsTemporalChunking(fileExt, fileMime)

\* the file is above the provider's direct-pass size threshold
AboveDirectThreshold ==
    IF provider = "gemini" THEN ~(fileSize < GEMINI_SMALL_FILE) ELSE fileSize > GROQ_MAX_SIZE

TemporalPlans == {"temporal-chunk", "temporal-chunk-fallback-to-compress"}

\* C11: for a non-video container file above the direct threshold whose duration is
\* at least 20 minutes the plan is temporal chunking, whichever the provider; when
\* the temporal chunker fails or is unavailable, what goes on is a re-encoded MP3.
C11_LongContainerTemporal ==
    /\ (plan # "none" /\ IsContainerAudio /\ AboveDirectThreshold
          /\ MinutesAtLeast(duration, CHUNKING_THRESHOLD_MINUTES))
        => plan \in TemporalPlans
    /\ (plan = "temporal-chunk-fallback-to-compress" /\ processedAudio # None)
        => processedAudio.chunks[1].kind = "mp3"

\* the encoder profile compressAudio is given for each provider
ProfileOf(p) ==
    IF p = "gemini" THEN [sampleRate |-> GEMINI_SAMPLE_RATE, bitrate |-> GEMINI_BITRATE]
    ELSE [sampleRate |-> GROQ_SAMPLE_RATE, bitrate |-> GROQ_BITRATE]

HasProfile(file, profile) ==
    file.kind # "original" /\ file.sampleRate = profile.sampleRate
                           /\ file.bitrate = profile.bitrate

\* C12: every video input (MIME type video/*), whatever the provider, the size and
\* the duration, goes through audio extraction: the result has wasCompressed = true,
\* each of its files is an MP3 encoded at the provider's profile (44.1 kHz / 128 kbps
\* for gemini, 16 kHz / 64 kbps for groq), and the original video is never handed to
\* a transcription entry point.
C12_VideoAlwaysExtracted ==
    isVideo(fileMime) =>
        /\ processedAudio # None =>
              /\ processedAudio.wasCompressed
              /\ \A k \in 1..Len(processedAudio.chunks) :
                    HasProfile(processedAudio.chunks[k], ProfileOf(provider))
        /\ \A k \in 1..Len(pieces) : pieces[k].src.kind # "original"

\* a video under 25 MB went to groq and was dispatched as a re-encoded MP3
C12_Witness ==
    /\ isVideo(fileMime) /\ provider = "groq" /\ fileSize <= GROQ_MAX_SIZE
    /\ sel_pc = "done" /\ Len(pieces) = 1
    /\ processedAudio.wasCompressed
    /\ pieces[1].src.kind = "mp3" /\ pieces[1].src.sampleRate = GROQ_SAMPLE_RATE

\* getMediaDuration resolved 0: media.onerror fired
ProbeReturnedZero == sel_pc # "probe" /\ duration = Fin(0)

\* C13: when the duration cannot be determined the prober returns 0 and the file is
\* a direct pass, for every provider and file size: the result holds exactly one
\* chunk, the input file, with wasCompressed = false and wasChunked = false.
C13_UnknownDurationDirectPass ==
    (ProbeReturnedZero /\ processedAudio # None) =>
        /\ processedAudio.chunks = <<OriginalFile>>
        /\ ~processedAudio.wasCompressed
        /\ ~processedAudio.wasChunked

\* C14: every file handed to the groq endpoint is at most 25 MB, for every input
\* size, media type and forceCompression setting: each chunk processForGroq returns
\* and each file transcribeAudio is given.
C14_GroqFilesWithinLimit ==
    provider = "groq" =>
        /\ processedAudio # None =>
              \A k \in 1..Len(processedAudio.chunks) :
                  processedAudio.chunks[k].size <= GROQ_MAX_SIZE
        /\ \A k \in 1..Len(pieces) : pieces[k].src.size <= GROQ_MAX_SIZE

\* an input over 25 MB whose MP3 is itself over 25 MB reached groq as binary parts
C14_Witness ==
    /\ provider = "groq" /\ fileSize > GROQ_MAX_SIZE
    /\ sel_pc = "done" /\ route = "transcribeAudio"
    /\ processedAudio.chunkingMethod = "binary"
    /\ Len(pieces) = 2
    /\ pieces[1].src.size + pieces[2].src.size > GROQ_MAX_SIZE

\* C15: the plan is a function of (provider, size, duration, container class,
\* isVideo) alone: a later run on the same file with the same probed duration
\* selects the plan the earlier run selected, whatever the environment.
C15_PlanDeterministic ==
    (earlier # None /\ plan # "none") => plan = earlier.plan

\* ranges are increasing, pairwise non-overlapping, each at most max long, and
\* concatenate to [0, size)
Tiles(ranges, size, max) ==
    /\ Len(ranges) > 0
    /\ ranges[1].from = 0
    /\ ranges[Len(ranges)].to = size
    /\ \A k \in 1..Len(ranges) :
          /\ ranges[k].from < ranges[k].to
          /\ ranges[k].to - ranges[k].from <= max
    /\ \A k \in 1..(Len(ranges) - 1) : ranges[k].to = ranges[k + 1].from

\* the byte-splitting loop of transcribeWithGeminiChunked has run to its end
ByteSplitDone ==
    /\ sel_pc = "done" /\ route = "transcribeWithGeminiChunked"
    /\ ~IsPreChunked(processedAudio)

\* C16: every byte-offset splitting, chunkFile as well as the single-file case of
\* transcribeWithGeminiChunked, yields increasing, pairwise non-overlapping ranges,
\* each at most the maximum chunk size, that concatenate to the whole file.
C16_ByteRangesTile ==
    /\ (processedAudio # None /\ processedAudio.chunkingMethod = "binary") =>
          Tiles(chunkFileRanges(EncodedSize(processedAudio), GROQ_CHUNK_SIZE, 0),
                EncodedSize(processedAudio), GROQ_CHUNK_SIZE)
    /\ ByteSplitDone => Tiles(pieces, singleFileSize, chunkSizeBytes)

\* C19: with 20-minute chunks and a 30-second overlap, a 90-minute container file
\* for gemini yields exactly 5 temporal chunks whose windows are [0, 20.5],
\* [19.5, 40.5], ... minutes: every non-first window k starts O seconds before k * C
\* and ends at min(D, (k + 1) * C + O).
C19_NinetyMinuteWindows ==
    (provider = "gemini" /\ IsContainerAudio /\ duration = Fin(90 * 60)
        /\ plan = "temporal-chunk" /\ processedAudio # None) =>
        LET meta == processedAudio.chunkMetadata
            C == CHUNKING_THRESHOLD_MINUTES * 60
            O == 30
            D == duration.v
        IN /\ Len(meta) = 5
           /\ meta[1].startTime = 0
           /\ meta[1].endTime = C + O
           /\ \A k \in 1..(Len(meta) - 1) :
                 /\ meta[k + 1].startTime = k * C - O
                 /\ meta[k + 1].endTime = Min(D, (k + 1) * C + O)

\* C28: the byte-splitting loop of transcribeWithGeminiChunked terminates with a
\* finite chunk list for every file size and every duration the processor can pass
\* to it, a non-finite one included: every iteration moves offset forward, which for
\* a loop that runs while offset < size is what termination amounts to.
C28_SplitLoopTerminates ==
    [][SelSplitStep => offset' > offset]_vars

(***************************************************************************)
(* Transcript text.  A text is a sequence of characters (one-character     *)
(* strings); the functions of gemini.ts are computed character by          *)
(* character as the code computes them.                                    *)
(***************************************************************************)
Digits == {"0", "1", "2", "3", "4", "5", "6", "7", "8", "9"}

DigitVal(c) ==
    CASE c = "0" -> 0 [] c = "1" -> 1 [] c = "2" -> 2 [] c = "3" -> 3 [] c = "4" -> 4
      [] c = "5" -> 5 [] c = "6" -> 6 [] c = "7" -> 7 [] c = "8" -> 8 [] c = "9" -> 9

DigitChar(n) ==
    CASE n = 0 -> "0" [] n = 1 -> "1" [] n = 2 -> "2" [] n = 3 -> "3" [] n = 4 -> "4"
      [] n = 5 -> "5" [] n = 6 -> "6" [] n = 7 -> "7" [] n = 8 -> "8" [] n = 9 -> "9"

\* the character at position i (1-based), "" outside the text
At(t, i) == IF i >= 1 /\ i <= Len(t) THEN t[i] ELSE ""

IsDigitAt(t, i) == At(t, i) \in Digits

\* parseInt of the n digits starting at position i
RECURSIVE ParseInt(_, _, _)
ParseInt(t, i, n) ==
    IF n = 0 THEN 0 ELSE ParseInt(t, i, n - 1) * 10 + DigitVal(t[i + n - 1])

\* n.toString()
RECURSIVE ToDigits(_)
ToDigits(n) == IF n < 10 THEN <<DigitChar(n)>> ELSE ToDigits(n \div 10) \o <<DigitChar(n % 10)>>

\* n.toString().padStart(2, '0')
PadStart2(n) == IF n < 10 THEN <<"0", DigitChar(n)>> ELSE ToDigits(n)

\* one attempt of /\[(\d{1,2}):(\d{2})(?::(\d{2}))?\]/ at position i
MatchAt(t, i) ==
    LET n1 == IF At(t, i) = "[" /\ IsDigitAt(t, i + 1) /\ IsDigitAt(t, i + 2) /\ At(t, i + 3) = ":"
              THEN 2
              ELSE IF At(t, i) = "[" /\ IsDigitAt(t, i + 1) /\ At(t, i + 2) = ":" THEN 1 ELSE 0
        j == i + n1 + 2
        has2 == n1 > 0 /\ IsDigitAt(t, j) /\ IsDigitAt(t, j + 1)
        with3 == has2 /\ At(t, j + 2) = ":" /\ IsDigitAt(t, j + 3) /\ IsDigitAt(t, j + 4)
                    /\ At(t, j + 5) = "]"
        without3 == has2 /\ At(t, j + 2) = "]"
        len == IF with3 THEN n1 + 8 ELSE n1 + 5
    IN IF with3 \/ without3
       THEN [ok |-> TRUE, len |-> len,
             part1 |-> ParseInt(t, i + 1, n1),
             part2 |-> ParseInt(t, j, 2),
             part3 |-> IF with3 THEN ParseInt(t, j + 3, 2) ELSE -1,
             inner |-> SubSeq(t, i + 1, i + len - 2)]
       ELSE [ok |-> FALSE, len |-> 0, part1 |-> 0, part2 |-> 0, part3 |-> -1, inner |-> <<>>]

MarkerSeconds_MinutesSeconds(m) == m.part1 * 60 + m.part2

\* the seconds a matched marker denotes
MarkerSeconds(m) ==
    IF m.part3 # -1 THEN m.part1 * 3600 + m.part2 * 60 + m.part3
    ELSE m.part1 * 60 + m.part2

\* the marker adjustTimestamps emits for totalSeconds
FormatMarker(totalSeconds) ==
    LET finalHours == totalSeconds \div 3600
        finalMinutes == (totalSeconds % 3600) \div 60
        finalSeconds == totalSeconds % 60
    IN IF finalHours > 0
       THEN <<"[">> \o PadStart2(finalHours) \o <<":">> \o PadStart2(finalMinutes) \o <<":">>
                \o PadStart2(finalSeconds) \o <<"]">>
       ELSE <<"[">> \o PadStart2(finalMinutes) \o <<":">> \o PadStart2(finalSeconds) \o <<"]">>

\* the positions of t that hold "[", ascending: the only places a match can start
OpenBrackets(t) ==
    LET IsOpen(k) == t[k] = "["
    IN SelectSeq([k \in 1..Len(t) |-> k], IsOpen)

\* text.replace(regex, ...): the global scan tries the candidates from left to right,
\* a match consumes its characters, everything else is copied.  c is the candidate
\* tried next, from the position of the first character not yet copied.
RECURSIVE ReplaceMarkers(_, _, _, _, _)
ReplaceMarkers(t, cands, c, from, offsetMinutes) ==
    IF c > Len(cands) THEN SubSeq(t, from, Len(t))
    ELSE LET m == MatchAt(t, cands[c])
         IN IF cands[c] >= from /\ m.ok
            THEN SubSeq(t, from, cands[c] - 1)
                    \o FormatMarker(MarkerSeconds(m) + offsetMinutes * 60)
                    \o ReplaceMarkers(t, cands, c + 1, cands[c] + m.len, offsetMinutes)
            ELSE ReplaceMarkers(t, cands, c + 1, from, offsetMinutes)

\* adjustTimestamps(text, offsetMinutes)
adjustTimestamps(text, offsetMinutes) ==
    IF offsetMinutes = 0 THEN text
    ELSE ReplaceMarkers(text, OpenBrackets(text), 1, 1, offsetMinutes)

Whitespace == {" ", "\n"}

\* the first position from k on that holds no whitespace (Len(t) + 1 if none)
RECURSIVE FirstInk(_, _)
FirstInk(t, k) == IF k <= Len(t) /\ t[k] \in Whitespace THEN FirstInk(t, k + 1) ELSE k

\* the last position up to k that holds no whitespace (0 if none)
RECURSIVE LastInk(_, _)
LastInk(t, k) == IF k >= 1 /\ t[k] \in Whitespace THEN LastInk(t, k - 1) ELSE k

\* String.prototype.trim
Trim(t) == SubSeq(t, FirstInk(t, 1), LastInk(t, Len(t)))

\* extractSegments: the loop over the matches of /\[(\d{1,2}:\d{2}(?::\d{2})?)\]/g.
\* c is the candidate tried next; lastIndex is the position that follows the last match.
RECURSIVE ExtractFrom(_, _, _, _, _, _)
ExtractFrom(t, cands, c, lastIndex, lastTimestamp, segments) ==
    IF c > Len(cands)
    THEN LET content == Trim(SubSeq(t, lastIndex, Len(t)))
         IN IF lastTimestamp # <<>> /\ lastIndex <= Len(t) /\ content # <<>>
            THEN Append(segments, [timestamp |-> lastTimestamp, content |-> content])
            ELSE segments
    ELSE LET m == MatchAt(t, cands[c])
         IN IF cands[c] >= lastIndex /\ m.ok
            THEN LET content == Trim(SubSeq(t, lastIndex, cands[c] - 1))
                 IN ExtractFrom(t, cands, c + 1, cands[c] + m.len, m.inner,
                                IF lastTimestamp # <<>> /\ content # <<>>
                                THEN Append(segments, [timestamp |-> lastTimestamp,
                                                       content |-> content])
                                ELSE segments)
            ELSE ExtractFrom(t, cands, c + 1, lastIndex, lastTimestamp, segments)

extractSegments(text) == ExtractFrom(text, OpenBrackets(text), 1, 1, <<>>, <<>>)

\* the letters of the modelled alphabet that toLowerCase changes
toLowerCase(c) == CASE c = "T" -> "t" [] c = "W" -> "w" [] OTHER -> c

Punctuation == {".", ",", "!", "?", ";", ":"}

NotPunctuation(c) == c \notin Punctuation

\* .replace(/[.,!?;:]/g, '')
StripPunctuation(t) == SelectSeq(t, NotPunctuation)

Kept(c) == c # ""

\* .replace(/\s+/g, ' '): the first character of a whitespace run becomes a space,
\* the others go
CollapseWhitespace(t) ==
    SelectSeq([k \in 1..Len(t) |->
                  IF t[k] \notin Whitespace THEN t[k]
                  ELSE IF k > 1 /\ t[k - 1] \in Whitespace THEN "" ELSE " "],
              Kept)

\* normalizeForComparison(text)
normalizeForComparison(text) ==
    Trim(CollapseWhitespace(StripPunctuation([i \in 1..Len(text) |-> toLowerCase(text[i])])))

\* text1.includes(text2)
Includes(text1, text2) ==
    \E i \in 0..(Len(text1) - Len(text2)) : SubSeq(text1, i + 1, i + Len(text2)) = text2

\* text.split(' ')
RECURSIVE SplitFrom(_, _, _)
SplitFrom(t, i, word) ==
    IF i > Len(t) THEN <<word>>
    ELSE IF t[i] = " " THEN <<word>> \o SplitFrom(t, i + 1, <<>>)
    ELSE SplitFrom(t, i + 1, Append(word, t[i]))

Split(t) == SplitFrom(t, 1, <<>>)

\* calculateSimilarity_AlwaysDissimilar: a resolver that never recognises a repetition
calculateSimilarity_AlwaysDissimilar(text1, text2) == [num |-> 0, den |-> 1]

\* calculateSimilarity(text1, text2) as the fraction num / den
calculateSimilarity(text1, text2) ==
    IF text1 = text2 THEN [num |-> 1, den |-> 1]
    ELSE IF Includes(text1, text2) \/ Includes(text2, text1)
    THEN [num |-> Min(Len(text1), Len(text2)), den |-> Max(Len(text1), Len(text2))]
    ELSE LET words1 == Split(text1)
             words2 == Split(text2)
             minLength == Min(Len(words1), Len(words2))
             maxLength == Max(Len(words1), Len(words2))
             matches == Cardinality({i \in 1..minLength : words1[i] = words2[i]})
         IN [num |-> matches, den |-> maxLength]

SEGMENT_WINDOW == 5
MIN_COMPARE_LENGTH == 20
SIMILARITY_PERCENT == 85

\* the test of the inner loop of detectAndRemoveOverlap, on normalized contents
ContentsOverlap(lastContent, firstContent) ==
    /\ Len(lastContent) > MIN_COMPARE_LENGTH
    /\ Len(firstContent) > MIN_COMPARE_LENGTH
    /\ LET similarity == calculateSimilarity(lastContent, firstContent)
       IN similarity.num * 100 > SIMILARITY_PERCENT * similarity.den

\* the two loops of detectAndRemoveOverlap, over the normalized contents of the last
\* segments (outer, j) and of the first segments (inner, k); they stop at the first
\* pair that overlaps and yield removeUpToIndex (0 when no pair does)
RECURSIVE FindOverlap(_, _, _, _)
FindOverlap(lastContents, firstContents, j, k) ==
    IF j > Len(lastContents) THEN 0
    ELSE IF k > Len(firstContents) THEN FindOverlap(lastContents, firstContents, j + 1, 1)
    ELSE IF ContentsOverlap(lastContents[j], firstContents[k]) THEN k
    ELSE FindOverlap(lastContents, firstContents, j, k + 1)

removeUpToIndex(prevSegs, currSegs) ==
    LET nLast == Min(SEGMENT_WINDOW, Len(prevSegs))
        lastSegments == SubSeq(prevSegs, Len(prevSegs) - nLast + 1, Len(prevSegs))
        firstSegments == SubSeq(currSegs, 1, Min(SEGMENT_WINDOW, Len(currSegs)))
    IN FindOverlap([j \in 1..Len(lastSegments) |-> normalizeForComparison(lastSegments[j].content)],
                   [k \in 1..Len(firstSegments) |-> normalizeForComparison(firstSegments[k].content)],
                   1, 1)

RECURSIVE Join(_, _)
Join(parts, sep) ==
    IF parts = <<>> THEN <<>>
    ELSE IF Len(parts) = 1 THEN parts[1]
    ELSE parts[1] \o sep \o Join(Tail(parts), sep)

\* `[${s.timestamp}] ${s.content}`
SegmentLine(s) == <<"[">> \o s.timestamp \o <<"]", " ">> \o s.content

\* the text kept of fragment i (1-based) of chunks
CleanedChunk(chunks_, i) ==
    IF i = 1 THEN chunks_[1]
    ELSE LET prevSegs == extractSegments(chunks_[i - 1])
             currSegs == extractSegments(chunks_[i])
         IN IF prevSegs = <<>> \/ currSegs = <<>> THEN chunks_[i]
            ELSE LET r == removeUpToIndex(prevSegs, currSegs)
                 IN IF r > 0
                    THEN Join([k \in 1..(Len(currSegs) - r) |-> SegmentLine(currSegs[r + k])],
                              <<"\n">>)
                    ELSE chunks_[i]

\* detectAndRemoveOverlap(chunks), chunks being the fragments' texts in order
detectAndRemoveOverlap(chunks_) ==
    IF Len(chunks_) = 0 THEN <<>>
    ELSE IF Len(chunks_) = 1 THEN chunks_[1]
    ELSE Join([i \in 1..Len(chunks_) |-> CleanedChunk(chunks_, i)], <<"\n", "\n">>)

(***************************************************************************)
(* The timestamp normalizer applied to one fragment.  A fragment is put    *)
(* together from tokens: markers in each of the four shapes the pattern    *)
(* accepts, and plain stretches, some of them bracketed text the pattern   *)
(* rejects.  What a marker denotes is known from the token, not from       *)
(* parsing its text.                                                       *)
(***************************************************************************)
MaxTokens == 2

Marker(form, h, m, s) == [form |-> form, h |-> h, m |-> m, s |-> s, chars |-> <<>>]
Plain(chars) == [form |-> "plain", h |-> 0, m |-> 0, s |-> 0, chars |-> chars]

TokenPool ==
    { Marker("MM:SS", 0, 0, 10), Marker("MM:SS", 0, 59, 59), Marker("MM:SS", 0, 5, 75),
      Marker("M:SS", 0, 5, 3), Marker("HH:MM:SS", 1, 0, 0), Marker("H:MM:SS", 0, 59, 30),
      Plain(<<" ", "o", "k", " ">>),
      Plain(<<"[", "n", "o", "t", "e", "]">>),
      Plain(<<"[", "1", "2", "3", ":", "4", "5", "]">>),
      Plain(<<"[", "1", "2", ":", "3", "]">>) }

TokenLists == UNION {[1..n -> TokenPool] : n \in 1..MaxTokens}

\* offsetMinutes = Math.floor(chunk.start / 60) of some chunk: 0 for the first
AdjOffsets == {0, 1, 20, 60}

\* two decimal digits of n < 100
Pair(n) == <<DigitChar(n \div 10), DigitChar(n % 10)>>

\* the text of a token as the model of the endpoint wrote it
TokenText(tok) ==
    CASE tok.form = "plain" -> tok.chars
      [] tok.form = "MM:SS" -> <<"[">> \o Pair(tok.m) \o <<":">> \o Pair(tok.s) \o <<"]">>
      [] tok.form = "M:SS" -> <<"[", DigitChar(tok.m), ":">> \o Pair(tok.s) \o <<"]">>
      [] tok.form = "HH:MM:SS" -> <<"[">> \o Pair(tok.h) \o <<":">> \o Pair(tok.m) \o <<":">>
                                    \o Pair(tok.s) \o <<"]">>
      [] tok.form = "H:MM:SS" -> <<"[", DigitChar(tok.h), ":">> \o Pair(tok.m) \o <<":">>
                                    \o Pair(tok.s) \o <<"]">>

RECURSIVE FragmentText(_)
FragmentText(toks) ==
    IF toks = <<>> THEN <<>> ELSE TokenText(Head(toks)) \o FragmentText(Tail(toks))

\* the seconds a marker token denotes
TokenSeconds(tok) == tok.h * 3600 + tok.m * 60 + tok.s

\* the canonical marker of t seconds: [MM:SS] below one hour, [HH:MM:SS] from one hour on
Canonical(t) ==
    IF t < 3600
    THEN <<"[">> \o Pair(t \div 60) \o <<":">> \o Pair(t % 60) \o <<"]">>
    ELSE <<"[">> \o Pair(t \div 3600) \o <<":">> \o Pair((t % 3600) \div 60) \o <<":">>
            \o Pair(t % 60) \o <<"]">>

\* the fragment with every marker shifted by mins minutes and rewritten canonically
RECURSIVE Shifted(_, _)
Shifted(toks, mins) ==
    IF toks = <<>> THEN <<>>
    ELSE (IF Head(toks).form = "plain" THEN Head(toks).chars
          ELSE Canonical(TokenSeconds(Head(toks)) + 60 * mins))
            \o Shifted(Tail(toks), mins)

HasMarker(toks) == \E k \in 1..Len(toks) : toks[k].form # "plain"

InitAdjust ==
    /\ ChunkerIdle /\ SelectorIdle /\ OverlapIdle /\ ParallelIdle /\ GroqIdle /\ OrganizeIdle /\ JobIdle /\ EngineIdle
    /\ fragmentTokens \in TokenLists
    /\ fragmentOffset \in AdjOffsets
    /\ adjusted = None
    /\ adj_pc = "adjust"

\* results.map(r => ({ ...r, text: adjustTimestamps(r.text, r.offsetMinutes) }))
Adjust ==
    /\ adj_pc = "adjust"
    /\ adjusted' = [text |-> adjustTimestamps(FragmentText(fragmentTokens), fragmentOffset)]
    /\ adj_pc' = "done"
    /\ UNCHANGED <<notAdjust, fragmentTokens, fragmentOffset>>

NextAdjust == Adjust

SpecAdjust == InitAdjust /\ [][NextAdjust]_vars

\* C20: adjustTimestamps rewrites every marker [MM:SS] or [HH:MM:SS] that denotes t
\* seconds, for an offset of m minutes, to the canonical marker of t + 60 * m
\* seconds ([MM:SS] below one hour, [HH:MM:SS] otherwise) and passes all other text
\* through unchanged; with m = 0, or with no marker in the text, the text comes
\* back unchanged.
C20_MarkersShifted ==
    adj_pc = "done" =>
        /\ fragmentOffset # 0 => adjusted.text = Shifted(fragmentTokens, fragmentOffset)
        /\ (fragmentOffset = 0 \/ ~HasMarker(fragmentTokens))
              => adjusted.text = FragmentText(fragmentTokens)

\* [59:59] shifted by one minute crossed the hour, next to bracketed text left alone
C20_Witness ==
    /\ adj_pc = "done"
    /\ fragmentOffset = 1
    /\ fragmentTokens = <<Plain(<<"[", "1", "2", "3", ":", "4", "5", "]">>),
                          Marker("MM:SS", 0, 59, 59)>>
    /\ adjusted.text = <<"[", "1", "2", "3", ":", "4", "5", "]",
                         "[", "0", "1", ":", "0", "0", ":", "5", "9", "]">>


(***************************************************************************)
(* The overlap resolver applied to two fragments.  Fragments are built     *)
(* from a pool of segments whose contents lie on both sides of the         *)
(* resolver's length guard and of its similarity threshold.                *)
(***************************************************************************)
\* "today we talk about it"
LongSentence ==
    <<"t", "o", "d", "a", "y", " ", "w", "e", " ", "t", "a", "l", "k", " ", "a", "b", "o",
      "u", "t", " ", "i", "t">>

\* "Today, we talk about it."
StyledSentence ==
    <<"T", "o", "d", "a", "y", ",", " ", "w", "e", " ", "t", "a", "l", "k", " ", "a", "b",
      "o", "u", "t", " ", "i", "t", ".">>

\* "Welcome to this lecture"
OtherSentence ==
    <<"W", "e", "l", "c", "o", "m", "e", " ", "t", "o", " ", "t", "h", "i", "s", " ", "l",
      "e", "c", "t", "u", "r", "e">>

\* "we will see them now"
EdgeSentence ==
    <<"w", "e", " ", "w", "i", "l", "l", " ", "s", "e", "e", " ", "t", "h", "e", "m", " ",
      "n", "o", "w">>

\* "thank you"
ShortSentence ==
    <<"t", "h", "a", "n", "k", " ", "y", "o", "u">>

\* "00:10"
EarlyStamp ==
    <<"0", "0", ":", "1", "0">>

\* "00:20"
LateStamp ==
    <<"0", "0", ":", "2", "0">>

MaxFragmentSegments == 2

Segment(ts, text) == [timestamp |-> ts, content |-> text]

SegmentPool ==
    {Segment(EarlyStamp, LongSentence), Segment(LateStamp, LongSentence),
     Segment(EarlyStamp, StyledSentence), Segment(LateStamp, OtherSentence),
     Segment(LateStamp, EdgeSentence), Segment(LateStamp, ShortSentence)}

SegmentLists == UNION {[1..n -> SegmentPool] : n \in 1..MaxFragmentSegments}

\* a fragment as the endpoint writes it: one "[timestamp] content" line per segment
FragmentOf(segs) == Join([k \in 1..Len(segs) |-> SegmentLine(segs[k])], <<"\n">>)

InitOverlap ==
    /\ ChunkerIdle /\ SelectorIdle /\ ParallelIdle /\ GroqIdle /\ AdjustIdle /\ OrganizeIdle /\ JobIdle /\ EngineIdle
    /\ fragments \in {<<FragmentOf(a), FragmentOf(b)>> : a \in SegmentLists, b \in SegmentLists}
    /\ resolved = None
    /\ ov_pc = "start"

Resolve ==
    /\ ov_pc = "start"
    /\ resolved' = detectAndRemoveOverlap(fragments)
    /\ ov_pc' = "done"
    /\ UNCHANGED <<notOverlap, fragments>>

NextOverlap == Resolve

SpecOverlap == InitOverlap /\ [][NextOverlap]_vars

\* how many of the segments segs are the segment seg (same timestamp, same content)
Occurrences(seg, segs) == Cardinality({k \in 1..Len(segs) : segs[k] = seg})

\* the first segment of curr repeats the last segment of prev
BoundaryRepeated(prev, curr) ==
    /\ prev # <<>> /\ curr # <<>>
    /\ prev[Len(prev)] = curr[1]

LongEnough(seg) == Len(normalizeForComparison(seg.content)) > MIN_COMPARE_LENGTH

ParTail == 600
MaxParSteps == 2

\* durations of recordings that are cut into 2 .. MaxParSteps + 1 temporal chunks
ParDurations == {CHUNK_SIZE_MINUTES * 60 * k + ParTail : k \in 1..MaxParSteps}

\* what the endpoint may answer for a chunk: timestamps count from the chunk's start
HeadAnswer ==
    FragmentOf(<<Segment(<<"0", "0", ":", "0", "0">>, LongSentence),
                 Segment(<<"2", "0", ":", "1", "0">>, OtherSentence)>>)

TailAnswer ==
    FragmentOf(<<Segment(EarlyStamp, OtherSentence),
                 Segment(<<"0", "5", ":", "0", "0">>, LongSentence)>>)

LooseAnswer ==
    FragmentOf(<<Segment(<<"0", "0", ":", "0", "0">>, ShortSentence),
                 Segment(<<"0", "5", ":", "0", "0">>, EdgeSentence)>>)

Answers == {HeadAnswer, TailAnswer, LooseAnswer}

\* CASO A: chunks = file.map((f, i) => ({ start, end, index: i }))
ChunksOf(meta) ==
    [k \in 1..Len(meta) |-> [start |-> meta[k].startTime, end |-> meta[k].endTime, index |-> k - 1]]

offsetMinutes_OfFirstChunk(chunk) == 0

\* offsetMinutes: Math.floor(chunk.start / 60)
offsetMinutes(chunk) == chunk.start \div 60

\* the object a chunk's promise resolves to
ChunkResult(chunk, text) ==
    [index |-> chunk.index, text |-> text, offsetMinutes |-> offsetMinutes(chunk)]

\* results.sort((a, b) => a.index - b.index), the indices being distinct
SortByIndex(rs) ==
    [k \in 1..Len(rs) |->
        rs[CHOOSE a \in 1..Len(rs) :
              Cardinality({b \in 1..Len(rs) : rs[b].index < rs[a].index}) = k - 1]]

\* post-processing of the array Promise.all resolved to
PostProcess(rs) ==
    LET sorted == SortByIndex(rs)
    IN detectAndRemoveOverlap([k \in 1..Len(sorted) |->
                                  adjustTimestamps(sorted[k].text, sorted[k].offsetMinutes)])

InitParallel ==
    /\ ChunkerIdle /\ SelectorIdle /\ OverlapIdle /\ GroqIdle /\ AdjustIdle /\ OrganizeIdle /\ JobIdle /\ EngineIdle
    /\ chunkMetadata \in {ChunkWindows(d, CHUNK_SIZE_MINUTES * 60, CHUNK_OVERLAP_SECONDS, 0, 0) :
                             d \in ParDurations}
    /\ par_pc = "start"
    /\ pending = {}
    /\ settled = <<>>
    /\ completedChunks = 0
    /\ completionOrder = <<>>
    /\ returnedText = <<>>
    /\ finalText = None

\* chunks.map(async chunk => ...): every request is sent before the first await returns
ParDispatch ==
    /\ par_pc = "start"
    /\ pending' = {k - 1 : k \in 1..Len(chunkMetadata)}
    /\ settled' = [k \in 1..Len(chunkMetadata) |-> None]
    /\ returnedText' = [k \in 1..Len(chunkMetadata) |-> None]
    /\ par_pc' = "awaiting"
    /\ UNCHANGED <<notParallel, chunkMetadata, completedChunks, completionOrder, finalText>>

\* the request of chunk k is answered with a transcript: its promise resolves, and
\* when it was the last one Promise.all resolves and the post-processing runs
ParResolve ==
    /\ par_pc \in {"awaiting", "failed"}
    /\ \E k \in pending, text \in Answers :
          LET now == [settled EXCEPT ![k + 1] = ChunkResult(ChunksOf(chunkMetadata)[k + 1], text)]
          IN /\ settled' = now
             /\ returnedText' = [returnedText EXCEPT ![k + 1] = text]
             /\ completionOrder' = Append(completionOrder, k)
             /\ pending' = pending \ {k}
             /\ completedChunks' = completedChunks + 1
             /\ IF par_pc = "awaiting" /\ pending = {k}
                THEN finalText' = PostProcess(now) /\ par_pc' = "done"
                ELSE UNCHANGED <<finalText, par_pc>>
    /\ UNCHANGED <<notParallel, chunkMetadata>>

\* the request of chunk k is answered with a non-success status or with no text:
\* transcribeWithGemini throws, the chunk's promise rejects and so does Promise.all
ParReject ==
    /\ par_pc \in {"awaiting", "failed"}
    /\ \E k \in pending : pending' = pending \ {k}
    /\ par_pc' = "failed"
    /\ UNCHANGED <<notParallel, chunkMetadata, settled, completedChunks, completionOrder,
                   returnedText, finalText>>

NextParallel == ParDispatch \/ ParResolve \/ ParReject

SpecParallel == InitParallel /\ [][NextParallel]_vars

\* C5: whatever the completion order, the final text is the overlap-resolved
\* concatenation, in chunk index order, of each chunk's own answer shifted by the
\* whole minutes of that chunk's own start.
C5_AssemblyInIndexOrder ==
    par_pc = "done" =>
        finalText = detectAndRemoveOverlap(
                        [k \in 1..Len(chunkMetadata) |->
                            adjustTimestamps(returnedText[k], chunkMetadata[k].startTime \div 60)])

\* a finished dispatch of at least three chunks whose answers arrived last chunk
\* first, with different answers for the first and the last chunk
C5_Witness ==
    /\ par_pc = "done"
    /\ Len(chunkMetadata) >= 3
    /\ completionOrder[1] = Len(chunkMetadata) - 1
    /\ completionOrder[Len(chunkMetadata)] = 0
    /\ returnedText[1] # returnedText[Len(chunkMetadata)]

\* the seconds denoted by the markers of t, in the order they appear
RECURSIVE MarkersFrom(_, _, _, _)
MarkersFrom(t, cands, c, from) ==
    IF c > Len(cands) THEN <<>>
    ELSE LET m == MatchAt(t, cands[c])
         IN IF cands[c] >= from /\ m.ok
            THEN <<MarkerSeconds(m)>> \o MarkersFrom(t, cands, c + 1, cands[c] + m.len)
            ELSE MarkersFrom(t, cands, c + 1, from)

Markers(t) == MarkersFrom(t, OpenBrackets(t), 1, 1)

StrictlyIncreasing(ns) == \A k \in 1..(Len(ns) - 1) : ns[k] < ns[k + 1]

\* C3: the timestamp markers of the final transcript of a multi-chunk job are
\* strictly increasing from start to end.
C3_MarkersStrictlyIncreasing ==
    par_pc = "done" => StrictlyIncreasing(Markers(finalText))

\* C17: binary chunks carry startTime = endTime = 0 and the timestamp normalizer is
\* not applied to their fragments (their offset in minutes is 0).
C17_BinaryChunksUntimed ==
    \A k \in 1..Len(pieces) :
        pieces[k].sliced =>
            /\ pieces[k].start = Fin(0)
            /\ pieces[k].end = Fin(0)
            /\ offsetMinutes([start |-> pieces[k].start.v]) = 0

(***************************************************************************)
(* Sequential dispatch: runGroqFlow calls transcribeAudio, which sends the *)
(* chunks one at a time through transcribeSingleFile.  A response is       *)
(* handled in one step: what follows the await runs to the next await.     *)
(***************************************************************************)
MaxGroqChunks == 3

GroqStatuses == {200, 401, 413, 429, 500}

\* response.ok
ResponseOk(status) == status = 200

\* bodies of a verbose_json response: segments with their start in seconds, and text
GroqBodies ==
    {[segments |-> <<>>, text |-> <<>>],
     [segments |-> <<>>, text |-> OtherSentence],
     [segments |-> <<[start |-> 0, text |-> <<" ">> \o LongSentence],
                     [start |-> 75, text |-> <<" ">> \o ShortSentence]>>,
      text |-> LongSentence \o <<" ">> \o ShortSentence]}

\* `[${mins}:${secs}] ${seg.text.trim()}` with mins = floor(start / 60), secs = floor(start % 60)
GroqSegmentLine(seg) ==
    <<"[">> \o PadStart2(seg.start \div 60) \o <<":">> \o PadStart2(seg.start % 60)
        \o <<"]", " ">> \o Trim(seg.text)

\* what transcribeSingleFile returns for a success response
TranscriptOf(data) ==
    IF Len(data.segments) > 0
    THEN Join([k \in 1..Len(data.segments) |-> GroqSegmentLine(data.segments[k])], <<"\n">>)
    ELSE data.text

\* !text || text.trim().length === 0
Blank(text) == Len(text) = 0 \/ Len(Trim(text)) = 0

Request(chunk) == [chunk |-> chunk, aborted |-> aborted]

InitGroq ==
    /\ ChunkerIdle /\ SelectorIdle /\ OverlapIdle /\ ParallelIdle /\ AdjustIdle /\ OrganizeIdle /\ JobIdle /\ EngineIdle
    /\ total \in 1..MaxGroqChunks
    /\ groq_pc = "start"
    /\ groq_i = 0
    /\ groqResults = <<>>
    /\ requests = <<>>
    /\ aborted = FALSE
    /\ lastStatus = 0
    /\ processingState = "compressing"
    /\ transcription = <<>>

\* runGroqFlow reaches transcribeAudio; its loop sends chunk 0
GroqStart ==
    /\ groq_pc = "start"
    /\ processingState' = "transcribing"
    /\ requests' = Append(requests, Request(0))
    /\ groq_pc' = "await"
    /\ UNCHANGED <<notGroq, total, groq_i, groqResults, aborted, lastStatus, transcription>>

\* the component unmounts while a request is in flight: abortControllerRef.current.abort()
GroqAbort ==
    /\ groq_pc = "await"
    /\ ~aborted
    /\ aborted' = TRUE
    /\ UNCHANGED <<notGroq, total, groq_pc, groq_i, groqResults, requests, lastStatus,
                   processingState, transcription>>

\* a success response for a chunk that is not the last: push the text, send the next chunk
GroqAnswerNext ==
    /\ groq_pc = "await"
    /\ groq_i + 1 < total
    /\ \E status \in GroqStatuses, data \in GroqBodies :
          /\ ResponseOk(status)
          /\ lastStatus' = status
          /\ groqResults' = Append(groqResults, TranscriptOf(data))
    /\ groq_i' = groq_i + 1
    /\ requests' = Append(requests, Request(groq_i + 1))
    /\ UNCHANGED <<notGroq, total, groq_pc, aborted, processingState, transcription>>

\* a success response for the last chunk: transcribeAudio returns results.join('\n\n'),
\* runGroqFlow returns if cancelled, throws if the text is blank, else accepts it
GroqAnswerLast ==
    /\ groq_pc = "await"
    /\ groq_i + 1 = total
    /\ \E status \in GroqStatuses, data \in GroqBodies :
          /\ ResponseOk(status)
          /\ lastStatus' = status
          /\ LET results == Append(groqResults, TranscriptOf(data))
                 text == Join(results, <<"\n", "\n">>)
             IN /\ groqResults' = results
                /\ IF aborted
                   THEN groq_pc' = "cancelled" /\ UNCHANGED <<processingState, transcription>>
                   ELSE IF Blank(text)
                   THEN /\ groq_pc' = "error"
                        /\ processingState' = "error"
                        /\ UNCHANGED transcription
                   ELSE /\ groq_pc' = "accepted"
                        /\ processingState' = "analyzing"
                        /\ transcription' = text
    /\ UNCHANGED <<notGroq, total, groq_i, requests, aborted>>

\* a non-success response: transcribeSingleFile throws, nothing catches it before the
\* flow's caller, which stays silent if cancelled and else sets the error state
GroqAnswerError ==
    /\ groq_pc = "await"
    /\ \E status \in GroqStatuses :
          /\ ~ResponseOk(status)
          /\ lastStatus' = status
    /\ IF aborted
       THEN groq_pc' = "cancelled" /\ UNCHANGED processingState
       ELSE groq_pc' = "error" /\ processingState' = "error"
    /\ UNCHANGED <<notGroq, total, groq_i, groqResults, requests, aborted, transcription>>

NextGroq == GroqStart \/ GroqAbort \/ GroqAnswerNext \/ GroqAnswerLast \/ GroqAnswerError

SpecGroq == InitGroq /\ [][NextGroq]_vars

\* how many requests were sent for chunk c
TimesSent(c) == Cardinality({k \in 1..Len(requests) : requests[k].chunk = c})

RATE_LIMITED == 429

\* C6: a chunk answered with a rate-limit response is sent again, exactly once;
\* the chunk in flight when the 429 arrived is chunk groq_i.
C6_RateLimitRetriedOnce ==
    lastStatus = RATE_LIMITED => TimesSent(groq_i) = 2

\* C7: no chunk request is sent once the job's cancellation token is cancelled.
C7_NoRequestAfterCancel ==
    \A k \in 1..Len(requests) : ~requests[k].aborted

\* C8: a transcript is accepted only if no chunk's fragment was blank and the
\* assembled text is not blank.
C8_BlankNeverAccepted ==
    groq_pc = "accepted" =>
        /\ \A k \in 1..Len(groqResults) : ~Blank(groqResults[k])
        /\ ~Blank(transcription)

(***************************************************************************)
(* Note organisation requests: callLlama (pdf-generator.ts) and            *)
(* organizeNotesWithGemini (gemini.ts).  Each sends one request and, on a  *)
(* 429 response, waits and calls itself again with the same arguments.     *)
(***************************************************************************)
MaxRequests == 4            \* responses the service gives before the model stops

LLAMA_RETRY_DELAY_MS == 10000
GEMINI_RETRY_DELAY_MS == 5000

OrganizeCalls ==
    {[fn |-> "callLlama", mode |-> md] : md \in {"full", "first", "continuation"}}
        \cup {[fn |-> "organizeNotesWithGemini", mode |-> "full"]}

\* statuses of the chat/completions and generateContent endpoints
OrganizeStatuses == {200, 401, 429, 500, 503}

\* the notes of a 200 response: choices[0].message.content / candidates[0] text
OrganizeContents == {"notes", ""}

RetryDelay == IF org_fn = "callLlama" THEN LLAMA_RETRY_DELAY_MS ELSE GEMINI_RETRY_DELAY_MS

InitOrganize ==
    /\ ChunkerIdle /\ SelectorIdle /\ OverlapIdle /\ ParallelIdle /\ GroqIdle /\ AdjustIdle /\ JobIdle /\ EngineIdle
    /\ \E call \in OrganizeCalls : org_fn = call.fn /\ org_mode = call.mode
    /\ org_pc = "fetch"
    /\ org_requests = 0
    /\ org_limited = 0
    /\ org_waited = 0
    /\ org_result = None

\* const response = await fetch(...)
OrgFetch ==
    /\ org_pc = "fetch"
    /\ org_requests < MaxRequests
    /\ org_requests' = org_requests + 1
    /\ org_pc' = "response"
    /\ UNCHANGED <<notOrganize, org_fn, org_mode, org_limited, org_waited, org_result>>

\* response.ok: callLlama returns the content or null; organizeNotesWithGemini
\* throws when there is no content
OrgAnswerOk ==
    /\ org_pc = "response"
    /\ \E content \in OrganizeContents :
        IF content = "" /\ org_fn = "organizeNotesWithGemini"
        THEN /\ org_result' = [error |-> "no-content"]
             /\ org_pc' = "thrown"
        ELSE /\ org_result' = [value |-> IF content = "" THEN "null" ELSE content]
             /\ org_pc' = "returned"
    /\ UNCHANGED <<notOrganize, org_fn, org_mode, org_requests, org_limited, org_waited>>

\* !response.ok && response.status === 429: await the delay, then
\* return callLlama(...) / return organizeNotesWithGemini(...)
OrgAnswerRateLimited ==
    /\ org_pc = "response"
    /\ org_limited' = org_limited + 1
    /\ org_pc' = "delay"
    /\ UNCHANGED <<notOrganize, org_fn, org_mode, org_requests, org_waited, org_result>>

OrgDelayOver ==
    /\ org_pc = "delay"
    /\ org_waited' = org_waited + RetryDelay
    /\ org_pc' = "fetch"
    /\ UNCHANGED <<notOrganize, org_fn, org_mode, org_requests, org_limited, org_result>>

\* !response.ok, any other status: throw new Error(...)
OrgAnswerError ==
    /\ org_pc = "response"
    /\ \E status \in OrganizeStatuses \ {200, 429} :
        org_result' = [error |-> status]
    /\ org_pc' = "thrown"
    /\ UNCHANGED <<notOrganize, org_fn, org_mode, org_requests, org_limited, org_waited>>

NextOrganize ==
    \/ OrgFetch
    \/ OrgAnswerOk
    \/ OrgAnswerRateLimited
    \/ OrgDelayOver
    \/ OrgAnswerError

SpecOrganize == InitOrganize /\ [][NextOrganize]_vars

\* C22: a request that keeps receiving rate-limit responses is retried once after a
\* fixed delay and then fails: callLlama and organizeNotesWithGemini each send at
\* most two requests, and after the second 429 response the call has terminated
\* with an error.
C22_RetriedOnceThenFatal ==
    /\ org_requests <= 2
    /\ org_limited >= 2 => org_pc = "thrown"


(***************************************************************************)
(* Job coordinator: the store's job actions (startProcessing,              *)
(* cancelProcessing, restoreSession, reset), the start button of           *)
(* UploadZone, and GlobalAudioProcessor with its effects and the           *)
(* invocations of run() they start, for the provider 'gemini'.  A store    *)
(* update and the effects React runs after it are one step.  The database  *)
(* module (createProject, saveAudioSource, getActiveProject) is outside    *)
(* the sources: its calls are inputs that succeed or fail.                 *)
(***************************************************************************)
MaxRuns == 1            \* invocations of run() that are alive at once
JobChunks == 2          \* chunks of the parallel dispatch
MaxProjects == 2        \* projects createProject is let to create

Runs == 1 .. MaxRuns
Files == {"lecture.m4a"}
Keys == {"key", ""}
ProcessOutcomes == {"chunked", "standard", "throws"}
Transcripts == {"text", ""}
OrganizeOutcomes == {"notes", "throws"}

FreeRun ==
    [pc |-> "free", aborted |-> FALSE, route |-> "none", inflight |-> {},
     completedChunks |-> 0, projectId |-> 0, abandoned |-> FALSE, failed |-> FALSE,
     resumes |-> FALSE]

InitialStore ==
    [file |-> "null", processingState |-> "idle", processingProgress |-> 0,
     step |-> "upload", error |-> "null", transcription |-> "",
     organizedNotes |-> "", title |-> "", currentProjectId |-> "null"]

\* zustand persist: the fields of partialize survive a page load
Rehydrated(st) ==
    [InitialStore EXCEPT !.step = st.step, !.transcription = st.transcription,
                         !.organizedNotes = st.organizedNotes, !.title = st.title]

\* a run whose function has returned keeps its slot while requests it sent are in flight
Release(rec) ==
    IF rec.pc = "ended" /\ rec.inflight = {} THEN [FreeRun EXCEPT !.failed = rec.failed, !.abandoned = rec.abandoned]
    ELSE rec

isCancelled(rec) == rec.aborted

\* The two effects on [file, processingState]: make an AbortController, then
\* start run() unless one is marked active.  fire: the dependencies changed.
EffectStarts(fire, st, ref) ==
    /\ mounted' /\ fire
    /\ st.file # "null" /\ st.processingState = "compressing"
    /\ ~ref

Effects(fire, st, ref, ctl, rs) ==
    LET free == {rn \in Runs : rs[rn].pc = "free"}
    IN IF EffectStarts(fire, st, ref)
       THEN /\ free # {}
            /\ LET rn == CHOOSE x \in free : \A y \in free : x <= y
               IN /\ processingRef' = TRUE
                  /\ abortControllerRef' = rn
                  /\ runs' = [rs EXCEPT ![rn] =
                               [FreeRun EXCEPT !.pc = "activeKey",
                                  !.projectId = IF st.currentProjectId = "null" THEN 0
                                                ELSE project'.id,
                                  !.resumes = /\ restoring /\ ~restoring'
                                              /\ st.transcription # ""]]
       ELSE /\ processingRef' = (IF mounted' /\ fire /\ st.processingState = "idle"
                                 THEN FALSE ELSE ref)
            /\ abortControllerRef' = ctl
            /\ runs' = rs

\* set(...) followed by the effects of the render it causes
Commit(st, ref, ctl, rs) ==
    /\ store' = st
    /\ Effects(<<st.file, st.processingState>> # <<store.file, store.processingState>>,
               st, ref, ctl, rs)

InitJob ==
    /\ ChunkerIdle /\ SelectorIdle /\ OverlapIdle /\ ParallelIdle /\ GroqIdle /\ AdjustIdle /\ OrganizeIdle /\ EngineIdle
    /\ store = InitialStore
    /\ project = [status |-> "none", audio |-> FALSE, id |-> 0]
    /\ mounted = TRUE
    /\ restoring = TRUE
    /\ processingRef = FALSE
    /\ abortControllerRef = 0
    /\ runs = [rn \in Runs |-> FreeRun]

\* UploadZone.handleFile -> setFile(f), and the remove button -> setFile(null)
SetFile ==
    /\ UNCHANGED <<project, mounted, restoring>>
    /\ \E f \in Files \cup {"null"} :
          /\ f # store.file
          /\ f = "null" => store.processingState = "idle"
          /\ Commit([store EXCEPT !.file = f], processingRef, abortControllerRef, runs)
    /\ UNCHANGED notJob

\* the start button of UploadZone is rendered
CanStart == store.file # "null" /\ store.processingState = "idle"

\* UploadZone.handleStart -> startProcessing(file)
HandleStart ==
    /\ UNCHANGED <<mounted, restoring>>
    /\ CanStart
    /\ \E key \in Keys, dbOk \in (IF project.id < MaxProjects THEN BOOLEAN ELSE {FALSE}) :
          IF key = ""
          THEN /\ UNCHANGED project
               /\ Commit([store EXCEPT !.error = "message"],
                         processingRef, abortControllerRef, runs)
          ELSE /\ project' = IF dbOk THEN [status |-> "processing", audio |-> TRUE,
                                           id |-> project.id + 1]
                             ELSE project
               /\ Commit([store EXCEPT !.currentProjectId = IF dbOk THEN "id" ELSE @,
                                       !.processingState = "compressing",
                                       !.processingProgress = 0,
                                       !.step = "transcribing"],
                         processingRef, abortControllerRef, runs)
    /\ UNCHANGED notJob

Abandon(rs) == [rn \in Runs |-> IF rs[rn].pc = "free" THEN rs[rn]
                                ELSE [rs[rn] EXCEPT !.abandoned = TRUE]]

cancelProcessing ==
    /\ UNCHANGED <<project, mounted, restoring>>
    /\ Commit([store EXCEPT !.processingState = "idle", !.processingProgress = 0,
                            !.file = "null", !.step = "upload",
                            !.currentProjectId = "null", !.transcription = "",
                            !.organizedNotes = ""],
              processingRef, abortControllerRef, Abandon(runs))
    /\ UNCHANGED notJob

reset ==
    /\ UNCHANGED <<project, mounted, restoring>>
    /\ Commit(InitialStore, processingRef, abortControllerRef, Abandon(runs))
    /\ UNCHANGED notJob

\* restoreSession, from the answer of getActiveProject on
restoreSession ==
    /\ UNCHANGED <<project, mounted>>
    /\ restoring
    /\ restoring' = FALSE
    /\ \E audio \in {project.audio, FALSE} :
          LET unfinished == project.status \notin {"none", "done"}
              st1 == IF unfinished /\ audio THEN [store EXCEPT !.file = "lecture.m4a"] ELSE store
              st2 == IF unfinished THEN [st1 EXCEPT !.currentProjectId = "id"] ELSE st1
              st3 == IF unfinished /\ project.status = "processing"
                     THEN [st2 EXCEPT !.processingState = "compressing",
                                      !.step = "transcribing"]
                     ELSE st2
          IN Commit(st3, processingRef, abortControllerRef, runs)
    /\ UNCHANGED notJob

\* the page is loaded again: a new script context, the store rehydrated,
\* GlobalAudioProcessor mounted and restoreSession called
Reload ==
    /\ store' = Rehydrated(store)
    /\ mounted' = TRUE
    /\ restoring' = TRUE
    /\ processingRef' = FALSE
    /\ abortControllerRef' = 0
    /\ runs' = [rn \in Runs |-> FreeRun]
    /\ UNCHANGED project
    /\ UNCHANGED notJob

\* cleanup of GlobalAudioProcessor: abortControllerRef.current?.abort()
Unmount ==
    /\ mounted
    /\ mounted' = FALSE
    /\ runs' = [rn \in Runs |-> IF rn = abortControllerRef /\ runs[rn].pc # "free"
                                THEN [runs[rn] EXCEPT !.aborted = TRUE] ELSE runs[rn]]
    /\ UNCHANGED <<store, project, restoring, processingRef, abortControllerRef>>
    /\ UNCHANGED notJob

\* GlobalAudioProcessor mounted again in the same script context: new refs,
\* restoreSession called, the effects run on the store as it is
Mount ==
    /\ ~mounted
    /\ mounted' = TRUE
    /\ restoring' = TRUE
    /\ UNCHANGED project
    /\ store' = store
    /\ Effects(TRUE, store, FALSE, 0, runs)
    /\ UNCHANGED notJob


\* finally of run(): processingRef.current = false; abortControllerRef.current = null
Finally(rn, st, rec) ==
    Commit(st, FALSE, 0, [runs EXCEPT ![rn] = Release([rec EXCEPT !.pc = "ended"])])

\* catch of run(): nothing when cancelled, else the error is shown; then finally
Catch(rn, st, rec, message) ==
    IF isCancelled(rec)
    THEN Finally(rn, st, rec)
    ELSE Finally(rn, [st EXCEPT !.error = message, !.processingState = "error",
                                !.step = "upload"],
                 [rec EXCEPT !.failed = TRUE])

\* run(): await activeKey() has returned
RunActiveKey(rn) ==
    /\ runs[rn].pc = "activeKey"
    /\ UNCHANGED <<project, mounted, restoring>>
    /\ \E key \in Keys :
          IF key = ""
          THEN Commit([store EXCEPT !.error = "message",
                                    !.processingState = "error", !.step = "upload"],
                      FALSE, abortControllerRef,
                      [runs EXCEPT ![rn] = Release([@ EXCEPT !.pc = "ended",
                                                             !.failed = TRUE])])
          ELSE /\ runs' = [runs EXCEPT ![rn].pc = "processAudio"]
               /\ UNCHANGED <<store, processingRef, abortControllerRef>>
    /\ UNCHANGED notJob

CompressionProgress == {500}

\* runGeminiFlow: the progress callback handed to processAudioForUpload
RunProgress(rn) ==
    /\ runs[rn].pc = "processAudio"
    /\ ~isCancelled(runs[rn])
    /\ UNCHANGED <<project, mounted, restoring>>
    /\ \E p \in CompressionProgress :
          /\ store.processingProgress # p
          /\ Commit([store EXCEPT !.processingProgress = p],
                    processingRef, abortControllerRef, runs)
    /\ UNCHANGED notJob

\* runGeminiFlow: processAudioForUpload has returned or thrown
RunProcessed(rn) ==
    /\ runs[rn].pc = "processAudio"
    /\ UNCHANGED <<project, mounted, restoring>>
    /\ \E out \in ProcessOutcomes :
          IF out = "throws"
          THEN Catch(rn, store, runs[rn], "message")
          ELSE IF isCancelled(runs[rn])
          THEN Finally(rn, store, runs[rn])
          ELSE Commit([store EXCEPT !.processingState = "uploading",
                                    !.processingProgress = 0],
                      processingRef, abortControllerRef,
                      [runs EXCEPT ![rn] =
                         [@ EXCEPT !.pc = "dispatch", !.route = out,
                                   !.inflight = IF out = "chunked" THEN 1 .. JobChunks
                                                ELSE {1}]])
    /\ UNCHANGED notJob

UploadProgress == {250, 750}

\* runGeminiFlow: the progress callback handed to transcribeWithGemini
StandardProgress(rn) ==
    /\ runs[rn].pc = "dispatch" /\ runs[rn].route = "standard"
    /\ ~isCancelled(runs[rn])
    /\ UNCHANGED <<project, mounted, restoring>>
    /\ \E p \in UploadProgress :
          /\ store.processingProgress < p
          /\ Commit([store EXCEPT !.processingState = IF p < 500 THEN "uploading"
                                                      ELSE "transcribing",
                                  !.processingProgress = p],
                    processingRef, abortControllerRef, runs)
    /\ UNCHANGED notJob

\* runGeminiFlow after the transcription call has returned
Transcribed(rn, st, rec, text) ==
    IF isCancelled(rec)
    THEN Finally(rn, st, rec)
    ELSE IF text = ""
    THEN Catch(rn, st, rec, "message")
    ELSE Commit([st EXCEPT !.transcription = text, !.processingState = "analyzing",
                           !.step = "ai-processing"],
                processingRef, abortControllerRef,
                [runs EXCEPT ![rn] = [rec EXCEPT !.pc = "organize"]])

\* updateProgress of transcribeWithGeminiChunked and the callback it calls
updateProgress(st, rec) ==
    IF isCancelled(rec) THEN st
    ELSE [st EXCEPT !.processingState = "transcribing",
                    !.processingProgress = ((rec.completedChunks + 1) * 1000) \div JobChunks]

\* one transcription request settles: its chunk promise, Promise.all, and what
\* runGeminiFlow and run() do in the same turn
RequestSettles(rn, ck) ==
    /\ ck \in runs[rn].inflight
    /\ UNCHANGED <<project, mounted, restoring>>
    /\ \E ok \in BOOLEAN, text \in Transcripts :
          LET rec == runs[rn]
              left == rec.inflight \ {ck}
              counted == [rec EXCEPT !.inflight = left,
                                     !.completedChunks = @ + 1]
              dropped == [rec EXCEPT !.inflight = left]
          IN IF ok /\ rec.route = "chunked"
             THEN IF rec.pc = "dispatch" /\ left = {}
                  THEN Transcribed(rn, updateProgress(store, rec), counted, text)
                  ELSE Commit(updateProgress(store, rec), processingRef,
                              abortControllerRef,
                              [runs EXCEPT ![rn] = Release(counted)])
             ELSE IF ok
             THEN Transcribed(rn, store, dropped, text)
             ELSE IF rec.pc = "dispatch"
             THEN Catch(rn, store, dropped, "message")
             ELSE Commit(store, processingRef, abortControllerRef,
                         [runs EXCEPT ![rn] = Release(dropped)])
    /\ UNCHANGED notJob

Notes == {"# Title", "notes"}

\* runGeminiFlow: organizeNotesWithGemini has returned or thrown
RunOrganized(rn) ==
    /\ runs[rn].pc = "organize"
    /\ UNCHANGED <<mounted, restoring>>
    /\ \E out \in Notes \cup {"throws"} :
          IF out = "throws"
          THEN /\ UNCHANGED project
               /\ Catch(rn, store, runs[rn], "message")
          ELSE IF isCancelled(runs[rn])
          THEN /\ UNCHANGED project
               /\ Finally(rn, store, runs[rn])
          ELSE /\ project' = IF runs[rn].projectId # 0 /\ runs[rn].projectId = project.id
                             THEN [project EXCEPT !.status = "done"] ELSE project
               /\ Finally(rn, [store EXCEPT !.title = IF out = "# Title" THEN "Title" ELSE @,
                                            !.organizedNotes = "notes",
                                            !.processingState = "done",
                                            !.step = "editor"],
                          runs[rn])
    /\ UNCHANGED notJob

NextJob ==
    \/ SetFile
    \/ HandleStart
    \/ cancelProcessing
    \/ reset
    \/ restoreSession
    \/ Reload
    \/ Unmount
    \/ Mount
    \/ \E rn \in Runs : RunActiveKey(rn)
    \/ \E rn \in Runs : RunProgress(rn)
    \/ \E rn \in Runs : RunProcessed(rn)
    \/ \E rn \in Runs : StandardProgress(rn)
    \/ \E rn \in Runs, ck \in 1 .. JobChunks : RequestSettles(rn, ck)
    \/ \E rn \in Runs : RunOrganized(rn)

SpecJob == InitJob /\ [][NextJob]_vars


\* run() leaves through its catch, not cancelled, or through the missing-key branch
FatalError == \E rn \in Runs : ~runs[rn].failed /\ runs'[rn].failed

\* C23: after any fatal pipeline error the job is back in a retryable
\* not-started state: processingState is 'idle', no run is marked active, and
\* the start button is there for the same file without a reset.
C23_ErrorReturnsToNotStarted ==
    [][FatalError => /\ store'.processingState = "idle"
                     /\ ~processingRef'
                     /\ CanStart']_vars


\* C24: a run started by restoreSession while the transcription of the
\* interrupted job is still in the store resumes after that stage: it is never
\* in the compression stage and never has transcription requests in flight.
C24_RestoredJobResumes ==
    \A rn \in Runs : runs[rn].resumes => runs[rn].pc \notin {"processAudio", "dispatch"}


\* a request of a dispatch that has already failed settles in this step
LateSettle(rn) ==
    /\ runs[rn].pc = "ended" /\ runs[rn].failed
    /\ runs'[rn].failed
    /\ runs'[rn].inflight # runs[rn].inflight

\* C26: once a parallel dispatch has failed and the job shows the error, the
\* completion of another chunk request of that dispatch changes neither
\* processingState nor the progress value.
C26_LateCompletionIgnored ==
    [][\A rn \in Runs :
          LateSettle(rn) /\ store.processingState = "error"
             => /\ store'.processingState = store.processingState
                /\ store'.processingProgress = store.processingProgress]_vars


\* a run that reset or cancelProcessing left behind moves on in this step
AbandonedRunStep(rn) ==
    /\ runs[rn].abandoned /\ runs[rn].pc # "free"
    /\ runs'[rn] # runs[rn]
    /\ runs'[rn].abandoned

\* C27: after reset or cancelProcessing the run that was going on never sets
\* transcription, processingState, step, title or organizedNotes again.
C27_AbandonedRunSilent ==
    [][\A rn \in Runs :
          AbandonedRunStep(rn)
             => /\ store'.transcription = store.transcription
                /\ store'.processingState = store.processingState
                /\ store'.step = store.step
                /\ store'.title = store.title
                /\ store'.organizedNotes = store.organizedNotes]_vars


RunActive == \E rn \in Runs : runs[rn].pc \notin {"free", "ended"}

\* C29: while GlobalAudioProcessor is mounted, processingState is 'compressing'
\* only with a run of the pipeline going on; a session restored without its
\* audio is never left in 'compressing' with no run.
C29_CompressingHasRun ==
    mounted /\ store.processingState = "compressing" => RunActive


(***************************************************************************)
(* The FFmpeg singleton under more than one invocation of                  *)
(* chunkFileTemporally.  The coordinator is reduced to what lets a job     *)
(* start: processingState, processingRef, the start button and reset.      *)
(* Each call on the engine (writeFile, exec, readFile, deleteFile) is one  *)
(* step; the engine runs the calls it is sent one at a time, in the order  *)
(* they arrive.  A call on a file that is not there fails.                 *)
(***************************************************************************)
MaxInvocations == 2     \* invocations of chunkFileTemporally alive at once
MaxEngineChunks == 2    \* chunks one invocation cuts

Invocations == 1 .. MaxInvocations
\* finalExtension for an input extension
finalExtensionOf(ext) == IF needsReencoding(ext) THEN "m4a" ELSE ext

NoInvocation == [pc |-> "free", ext |-> "none", chunkIndex |-> 0, count |-> 0,
                 foreign |-> FALSE]

EngInput(ext) == [base |-> "input", n |-> 0, ext |-> ext]
EngOutput(ci, ext) == [base |-> "chunk", n |-> ci, ext |-> finalExtensionOf(ext)]

Present(name) == \E f \in engine : f.name = name
FileAt(name) == CHOOSE f \in engine : f.name = name
Without(name) == {f \in engine : f.name # name}
\* the invocation iv is handed a file that another invocation wrote or filled
Foreign(iv, name) == Present(name) /\ (FileAt(name).writer # iv \/ FileAt(name).origin # iv)

InitEngine ==
    /\ ChunkerIdle /\ SelectorIdle /\ OverlapIdle /\ ParallelIdle /\ GroqIdle /\ AdjustIdle /\ OrganizeIdle /\ JobIdle
    /\ engine = {}
    /\ invocations = [iv \in Invocations |-> NoInvocation]
    /\ eng_state = "idle"
    /\ eng_ref = FALSE

\* the start button, startProcessing, and the effect that starts run(); the
\* run goes on to chunkFileTemporally with the file's extension and duration
EngStart ==
    /\ eng_state = "idle"
    /\ eng_state' = "compressing"
    /\ IF eng_ref
       THEN UNCHANGED <<eng_ref, invocations>>
       ELSE /\ eng_ref' = TRUE
            /\ \E iv \in Invocations, ext \in Extensions, count \in 1 .. MaxEngineChunks :
                  /\ invocations[iv].pc = "free"
                  /\ \A other \in Invocations : other < iv => invocations[other].pc # "free"
                  /\ invocations' = [invocations EXCEPT ![iv] =
                        [NoInvocation EXCEPT !.pc = "writeInput", !.ext = ext,
                                             !.count = count]]
    /\ UNCHANGED engine
    /\ UNCHANGED notEngine

\* reset(): processingState 'idle', and the effect clears processingRef
EngReset ==
    /\ eng_state # "idle"
    /\ eng_state' = "idle"
    /\ eng_ref' = FALSE
    /\ UNCHANGED <<engine, invocations>>
    /\ UNCHANGED notEngine

\* ffmpeg.writeFile(inputFileName, ...)
EngWriteInput(iv) ==
    /\ invocations[iv].pc = "writeInput"
    /\ LET name == EngInput(invocations[iv].ext)
       IN engine' = Without(name) \cup {[name |-> name, writer |-> iv, origin |-> iv]}
    /\ invocations' = [invocations EXCEPT ![iv].pc = "exec"]
    /\ UNCHANGED <<eng_state, eng_ref>>
    /\ UNCHANGED notEngine

\* ffmpeg.exec(['-i', inputFileName, ..., '-y', outputFileName]) and the exit code test
EngExec(iv) ==
    /\ invocations[iv].pc = "exec"
    /\ LET rec == invocations[iv]
           input == EngInput(rec.ext)
           output == EngOutput(rec.chunkIndex, rec.ext)
       IN \E exitCode \in (IF Present(input) THEN {0, 1} ELSE {1}) :
             IF exitCode # 0
             THEN /\ invocations' = [invocations EXCEPT ![iv].pc = "thrown"]
                  /\ UNCHANGED engine
             ELSE /\ engine' = Without(output) \cup
                                 {[name |-> output, writer |-> iv,
                                   origin |-> FileAt(input).origin]}
                  /\ invocations' = [invocations EXCEPT ![iv] =
                        [rec EXCEPT !.pc = "read",
                                    !.foreign = @ \/ Foreign(iv, input)]]
    /\ UNCHANGED <<eng_state, eng_ref>>
    /\ UNCHANGED notEngine

\* ffmpeg.readFile(outputFileName) and chunks.push
EngReadOutput(iv) ==
    /\ invocations[iv].pc = "read"
    /\ LET rec == invocations[iv]
           output == EngOutput(rec.chunkIndex, rec.ext)
       IN invocations' = [invocations EXCEPT ![iv] =
             IF Present(output)
             THEN [rec EXCEPT !.pc = "delete", !.foreign = @ \/ Foreign(iv, output)]
             ELSE [rec EXCEPT !.pc = "thrown"]]
    /\ UNCHANGED <<engine, eng_state, eng_ref>>
    /\ UNCHANGED notEngine

\* ffmpeg.deleteFile(outputFileName), currentTime += ..., chunkIndex++
EngDeleteOutput(iv) ==
    /\ invocations[iv].pc = "delete"
    /\ LET rec == invocations[iv]
           output == EngOutput(rec.chunkIndex, rec.ext)
       IN /\ engine' = Without(output)
          /\ invocations' = [invocations EXCEPT ![iv] =
                IF Present(output)
                THEN [rec EXCEPT !.pc = IF rec.chunkIndex + 1 < rec.count THEN "exec"
                                        ELSE "deleteInput",
                                 !.chunkIndex = @ + 1,
                                 !.foreign = @ \/ Foreign(iv, output)]
                ELSE [rec EXCEPT !.pc = "thrown"]]
    /\ UNCHANGED <<eng_state, eng_ref>>
    /\ UNCHANGED notEngine

\* ffmpeg.deleteFile(inputFileName) after the loop
EngDeleteInput(iv) ==
    /\ invocations[iv].pc = "deleteInput"
    /\ LET rec == invocations[iv]
           input == EngInput(rec.ext)
       IN /\ engine' = Without(input)
          /\ invocations' = [invocations EXCEPT ![iv] =
                IF Present(input)
                THEN [rec EXCEPT !.pc = "done", !.foreign = @ \/ Foreign(iv, input)]
                ELSE [rec EXCEPT !.pc = "thrown"]]
    /\ UNCHANGED <<eng_state, eng_ref>>
    /\ UNCHANGED notEngine

\* the rest of run() after chunkFileTemporally returned or threw: the later
\* stages or the catch, then finally clears processingRef
EngRunEnds(iv) ==
    /\ invocations[iv].pc \in {"done", "thrown"}
    /\ eng_state' = IF invocations[iv].pc = "thrown" THEN "error" ELSE "done"
    /\ eng_ref' = FALSE
    /\ invocations' = [invocations EXCEPT ![iv] = NoInvocation]
    /\ UNCHANGED engine
    /\ UNCHANGED notEngine

NextEngine ==
    \/ EngStart
    \/ EngReset
    \/ \E iv \in Invocations : EngWriteInput(iv)
    \/ \E iv \in Invocations : EngExec(iv)
    \/ \E iv \in Invocations : EngReadOutput(iv)
    \/ \E iv \in Invocations : EngDeleteOutput(iv)
    \/ \E iv \in Invocations : EngDeleteInput(iv)
    \/ \E iv \in Invocations : EngRunEnds(iv)

SpecEngine == InitEngine /\ [][NextEngine]_vars

\* C25: operations on the singleton are serialized, so no invocation of
\* chunkFileTemporally reads, cuts from or deletes a virtual file that
\* another invocation wrote.
C25_EngineSerialized ==
    \A iv \in Invocations : ~invocations[iv].foreign
====
